---- MODULE Spec2Model ----
(***************************************************************************)
(* Model of planx-sdk-go: the credit window primitives, the session         *)
(* registry, the source protocol handlers (the v1 source.Server built on    *)
(* session.Manager, and the v4 runtime.SourceServer built on flow.Window    *)
(* and the generic Manager[T]), the v1 sink and processor handlers, and the  *)
(* packed batch codec.                                                      *)
(***************************************************************************)
EXTENDS Integers, Naturals, Sequences, FiniteSets, TLC

\* ------------------------------------------------------------------- state
\* callers of one credit primitive (fImpl: which primitive they share)
VARIABLES fImpl, fWindow, fW, fPc, fCur, fAmt,
          fAcquired, fGranted, fNegGrant, fRelCalls
\* source.Server (v1): Manager.sessions, Manager.count, Server.instances, the
\* Session objects, the SPI instances, batches sent, and the calls in flight
VARIABLES sessions, count, instances, sess, spi, sent, cr, os, ak, cl, calls

\* runtime.SourceServer (v4): Manager[T].m, the sessions' flow.Window and SPI,
\* batches sent, and the calls in flight
VARIABLES rtSessions, rtWin, rtSpi, rtSent, rtCr, rtOs, rtAk, rtCl, rtCalls

\* sink.Server / processor.Server (v1; plKind: which of the two is running):
\* Manager.sessions, Server.instances, the SPI instances, the Write / Process
\* streams, and the calls in flight
VARIABLES plKind, plSessions, plInstances, plSpi, plCr, plCl, plSt, plCalls
\* batch codec: the width of int on the build, the Batch handed to PackBatch,
\* the buffer handed to UnpackBatch, what UnpackBatch returned, and the step
VARIABLES cdBits, cdBatch, cdData, cdOut, cdPc
\* callers of session.Manager itself (on sessions, count and sess above): the
\* Create, Close and CloseAll calls in flight, how often each session's
\* cancel() ran, and the number of calls made
VARIABLES mgCr, mgCl, mgAll, mgCancels, mgCalls

flowVars == <<fImpl, fWindow, fW, fPc, fCur, fAmt,
              fAcquired, fGranted, fNegGrant, fRelCalls>>
srcVars == <<sessions, count, instances, sess, spi, sent, cr, os, ak, cl, calls>>
rtVars == <<rtSessions, rtWin, rtSpi, rtSent, rtCr, rtOs, rtAk, rtCl, rtCalls>>
plVars == <<plKind, plSessions, plInstances, plSpi, plCr, plCl, plSt, plCalls>>
codVars == <<cdBits, cdBatch, cdData, cdOut, cdPc>>
mgVars == <<mgCr, mgCl, mgAll, mgCancels, mgCalls>>
vars == <<flowVars, srcVars, rtVars, plVars, codVars, mgVars>>
\* what the steps of one component leave alone
notFlow == <<srcVars, rtVars, plVars, codVars, mgVars>>
notSrc == <<flowVars, rtVars, plVars, codVars, mgVars>>
notRt == <<flowVars, srcVars, plVars, codVars, mgVars>>
notPl == <<flowVars, srcVars, rtVars, codVars, mgVars>>
notCod == <<flowVars, srcVars, rtVars, plVars, mgVars>>
\* the Manager's callers act on sessions, count and sess
notMg == <<flowVars, instances, spi, sent, cr, os, ak, cl, calls, rtVars, plVars, codVars>>

\* ------------------------------------------------------------------ bounds
NumAcquirers == 2
NumReleasers == 1
MaxAcquired == 22
MaxReleaseCalls == 2
MaxGrant == 1
MaxCalls == 3
NumDataStreams == 1
NumCloseAll == 1
MaxRecords == 2
MaxDamagedRecords == 1
MaxCut == 20

\* ------------------------------------------------------- program constants
DefaultWindow == 20

Acquirers == 1..NumAcquirers
Releasers == (NumAcquirers + 1)..(NumAcquirers + NumReleasers)
\* window values a host can put in an int32 request field (kept small)
GrantValues == (-1)..MaxGrant

(***************************************************************************)
(* Session.window (an atomic int32) : pure steps of the operations          *)
(***************************************************************************)
\* NewSession: window: 20
NewSessionWindow == DefaultWindow

\* ConsumeWindow, first half: `if current <= 0 { return false }`
ConsumeRefuses_NoCheck(current) == FALSE
ConsumeRefuses(current) == current <= 0

\* ConsumeWindow, second half: atomic.CompareAndSwapInt32(&s.window, current, current-1)
CasSucceeds(w, current) == w = current
CasResult(w, current) == IF CasSucceeds(w, current) THEN current - 1 ELSE w

\* UpdateWindow: atomic.StoreInt32(&s.window, newWindow)
UpdateWindow_Additive(w, newWindow) == w + newWindow
UpdateWindow(w, newWindow) == newWindow

(***************************************************************************)
(* flow.Window : value guarded by mu (the set holding its owner, if any),    *)
(* and cond's wait list                                                    *)
(***************************************************************************)
\* NewWindow(init)
NewWindow(init) == [value |-> init, mu |-> {}, waiters |-> {}]

\* w.mu.Lock() can return for p
WinCanLock(w) == w.mu = {}
WinLock(w, p) == [w EXCEPT !.mu = {p}]

\* Acquire: `for w.value <= 0 { w.cond.Wait() }`
WinMustWait_Never(w) == FALSE
WinMustWait(w) == w.value <= 0
\* cond.Wait(): enqueue on the notify list, unlock, park
WinWait_KeepsLock(w, p) == [w EXCEPT !.waiters = @ \cup {p}]
WinWait(w, p) == [w EXCEPT !.mu = {}, !.waiters = @ \cup {p}]
\* Acquire: w.value-- ; w.mu.Unlock()
WinTake(w) == [w EXCEPT !.value = @ - 1, !.mu = {}]
\* Release: w.value += n ; w.mu.Unlock()
WinAdd(w, n) == [w EXCEPT !.value = @ + n, !.mu = {}]
\* Release: w.cond.Broadcast()
WinBroadcast_Nobody(w) == w
WinBroadcast(w) == [w EXCEPT !.waiters = {}]

(***************************************************************************)
(* Concurrent callers of one credit primitive.                              *)
(* fImpl says which primitive the callers share: the Session's atomic       *)
(* window ("session") or a flow.Window ("window").                          *)
(***************************************************************************)

\* the callers' state before any call, for primitive impl
FlowStart(impl) ==
    /\ fImpl = impl
    /\ fWindow = NewSessionWindow
    /\ fW = NewWindow(0)
    /\ fPc = [p \in Acquirers \cup Releasers |-> "idle"]
    /\ fCur = [p \in Acquirers |-> 0]
    /\ fAmt = [p \in Releasers |-> 0]
    /\ fAcquired = 0
    /\ fGranted = 0
    /\ fNegGrant = FALSE
    /\ fRelCalls = 0

InitialCredit == IF fImpl = "session" THEN NewSessionWindow ELSE 0

\* ---- Session.ConsumeWindow by acquirer p
\* current := atomic.LoadInt32(&s.window); if current <= 0 { return false }
ConsumeLoad(p) ==
    /\ fImpl = "session"
    /\ fPc[p] \in {"idle", "retry"}
    /\ fPc[p] = "idle" => fAcquired < MaxAcquired
    /\ fCur' = [fCur EXCEPT ![p] = IF ConsumeRefuses(fWindow) THEN 0 ELSE fWindow]
    /\ fPc' = [fPc EXCEPT ![p] = IF ConsumeRefuses(fWindow) THEN "idle" ELSE "cas"]
    /\ UNCHANGED <<fImpl, fWindow, fW, fAmt, fAcquired, fGranted, fNegGrant, fRelCalls>>
    /\ UNCHANGED notFlow

\* if atomic.CompareAndSwapInt32(...) { return true } ; otherwise loop
ConsumeCas(p) ==
    /\ fImpl = "session"
    /\ fPc[p] = "cas"
    /\ fWindow' = CasResult(fWindow, fCur[p])
    /\ fAcquired' = IF CasSucceeds(fWindow, fCur[p]) THEN fAcquired + 1 ELSE fAcquired
    /\ fPc' = [fPc EXCEPT ![p] = IF CasSucceeds(fWindow, fCur[p]) THEN "idle" ELSE "retry"]
    /\ fCur' = [fCur EXCEPT ![p] = 0]
    /\ UNCHANGED <<fImpl, fW, fAmt, fGranted, fNegGrant, fRelCalls>>
    /\ UNCHANGED notFlow

\* ---- Session.UpdateWindow(n) by releaser r
SessionUpdate(r, n) ==
    /\ fImpl = "session"
    /\ fPc[r] = "idle"
    /\ fRelCalls < MaxReleaseCalls
    /\ fRelCalls' = fRelCalls + 1
    /\ fWindow' = UpdateWindow(fWindow, n)
    /\ fGranted' = fGranted + n
    /\ fNegGrant' = (fNegGrant \/ n < 0)
    /\ UNCHANGED <<fImpl, fW, fPc, fCur, fAmt, fAcquired>>
    /\ UNCHANGED notFlow

\* ---- Window.Acquire by acquirer p
\* w.mu.Lock()
AcquireLock(p) ==
    /\ fImpl = "window"
    /\ fPc[p] = "idle"
    /\ fAcquired < MaxAcquired
    /\ WinCanLock(fW)
    /\ fW' = WinLock(fW, p)
    /\ fPc' = [fPc EXCEPT ![p] = "locked"]
    /\ UNCHANGED <<fImpl, fWindow, fCur, fAmt, fAcquired, fGranted, fNegGrant, fRelCalls>>
    /\ UNCHANGED notFlow

\* for w.value <= 0 { w.cond.Wait() }   (the wait half: unlock and park)
AcquireWait(p) ==
    /\ fImpl = "window"
    /\ fPc[p] = "locked"
    /\ WinMustWait(fW)
    /\ fW' = WinWait(fW, p)
    /\ fPc' = [fPc EXCEPT ![p] = "parked"]
    /\ UNCHANGED <<fImpl, fWindow, fCur, fAmt, fAcquired, fGranted, fNegGrant, fRelCalls>>
    /\ UNCHANGED notFlow

\* cond.Wait() returns: p was taken off the wait list by a Broadcast and re-locks mu
AcquireWake(p) ==
    /\ fImpl = "window"
    /\ fPc[p] = "parked"
    /\ p \notin fW.waiters
    /\ WinCanLock(fW)
    /\ fW' = WinLock(fW, p)
    /\ fPc' = [fPc EXCEPT ![p] = "locked"]
    /\ UNCHANGED <<fImpl, fWindow, fCur, fAmt, fAcquired, fGranted, fNegGrant, fRelCalls>>
    /\ UNCHANGED notFlow

\* w.value-- ; w.mu.Unlock()
AcquireTake(p) ==
    /\ fImpl = "window"
    /\ fPc[p] = "locked"
    /\ ~WinMustWait(fW)
    /\ fW' = WinTake(fW)
    /\ fAcquired' = fAcquired + 1
    /\ fPc' = [fPc EXCEPT ![p] = "idle"]
    /\ UNCHANGED <<fImpl, fWindow, fCur, fAmt, fGranted, fNegGrant, fRelCalls>>
    /\ UNCHANGED notFlow

\* ---- Window.Release(n) by releaser r
\* w.mu.Lock()
ReleaseLock(r, n) ==
    /\ fImpl = "window"
    /\ fPc[r] = "idle"
    /\ fRelCalls < MaxReleaseCalls
    /\ WinCanLock(fW)
    /\ fW' = WinLock(fW, r)
    /\ fRelCalls' = fRelCalls + 1
    /\ fAmt' = [fAmt EXCEPT ![r] = n]
    /\ fPc' = [fPc EXCEPT ![r] = "locked"]
    /\ UNCHANGED <<fImpl, fWindow, fCur, fAcquired, fGranted, fNegGrant>>
    /\ UNCHANGED notFlow

\* w.value += n ; w.mu.Unlock()
ReleaseAdd(r) ==
    /\ fImpl = "window"
    /\ fPc[r] = "locked"
    /\ fW' = WinAdd(fW, fAmt[r])
    /\ fGranted' = fGranted + fAmt[r]
    /\ fNegGrant' = (fNegGrant \/ fAmt[r] < 0)
    /\ fPc' = [fPc EXCEPT ![r] = "bcast"]
    /\ UNCHANGED <<fImpl, fWindow, fCur, fAmt, fAcquired, fRelCalls>>
    /\ UNCHANGED notFlow

\* w.cond.Broadcast()
ReleaseBroadcast(r) ==
    /\ fImpl = "window"
    /\ fPc[r] = "bcast"
    /\ fW' = WinBroadcast(fW)
    /\ fPc' = [fPc EXCEPT ![r] = "idle"]
    /\ UNCHANGED <<fImpl, fWindow, fCur, fAmt, fAcquired, fGranted, fNegGrant, fRelCalls>>
    /\ UNCHANGED notFlow

NextFlow ==
    \/ \E p \in Acquirers : ConsumeLoad(p)
    \/ \E p \in Acquirers : ConsumeCas(p)
    \/ \E r \in Releasers, n \in GrantValues : SessionUpdate(r, n)
    \/ \E p \in Acquirers : AcquireLock(p)
    \/ \E p \in Acquirers : AcquireWait(p)
    \/ \E p \in Acquirers : AcquireWake(p)
    \/ \E p \in Acquirers : AcquireTake(p)
    \/ \E r \in Releasers, n \in GrantValues : ReleaseLock(r, n)
    \/ \E r \in Releasers : ReleaseAdd(r)
    \/ \E r \in Releasers : ReleaseBroadcast(r)



\* C1: as long as every granted amount is non-negative (Release(n), n >= 0), the
\* number of acquisitions that have succeeded never exceeds the initial credit
\* plus the sum of the amounts granted so far, for either primitive and for every
\* interleaving of the acquirers' and releasers' steps.
C1_AcquiredWithinCredit ==
    ~fNegGrant => fAcquired <= InitialCredit + fGranted

\* C1 witness: after a positive grant the callers have acquired every credit there
\* is (the bound is met with equality).
C1_Witness ==
    /\ ~fNegGrant
    /\ fGranted > 0
    /\ fAcquired = InitialCredit + fGranted

(***************************************************************************)
(* source.Server (v1): CreateSession, OpenStream, Ack and CloseSession run  *)
(* as concurrent calls over session.Manager and the instances map.          *)
(* A session id is the index of the CreateSession call whose NewSession     *)
(* generated it; 0 stands for an id no session ever had. Calls of one kind  *)
(* are numbered in the order they start. Manager.Create, Manager.Get,       *)
(* Manager.Close and Session.ConsumeWindow are taken as single steps here:  *)
(* a new session's id is unknown to every other call until CreateSession    *)
(* returns, and the steps inside ConsumeWindow are those of ConsumeLoad and *)
(* ConsumeCas above.                                                        *)
(***************************************************************************)
\* the host makes at most MaxCalls calls, of whatever kinds
Sessions == 1..MaxCalls
Streams == 1..MaxCalls
AckCalls == 1..MaxCalls
CloseCalls == 1..MaxCalls
\* what spi.ReadBatch can return: a batch with records, a batch without, an
\* error other than EOF, and io.EOF
ReadOutcomes == {"batch", "empty", "error", "eof"}

\* NewSession: window 20, live context, closed = false
\* keys and values user code stores in Session.data (a missing key is "absent")
DataKeys == {"k1"}
DataValues == {"v1", "v2"}

NewSession == [window |-> NewSessionWindow, closed |-> FALSE, cancelled |-> FALSE,
               data |-> [k \in DataKeys |-> "absent"]]

\* Session.Close: closed.CompareAndSwap(false, true), then cancel()
SessionClose(s) == [s EXCEPT !.closed = TRUE, !.cancelled = TRUE]

\* the ids a host can put in a request: the ones CreateSession returned, and 0
KnownIds == {s \in Sessions : cr[s].result = "ok"} \cup {0}

\* Manager.Get
MgrGet(id) ==
    IF id \notin sessions THEN "notfound"
    ELSE IF sess[id].closed THEN "closed"
    ELSE "ok"

\* Manager.Close: what it returns (ErrSessionNotFound when LoadAndDelete finds
\* no entry, else what Session.Close returns, which is nil)
MgrCloseError(id) == IF id \in sessions THEN "nil" ELSE "notfound"

\* sync.Map.LoadAndDelete on Server.instances / Manager.sessions: what is left
LoadAndDelete_KeepsEntry(m, id) == m
LoadAndDelete(m, id) == m \ {id}

\* Session.ConsumeWindow as one step: false and no change when the window
\* is <= 0, otherwise the window less one
ConsumeWindow(w) == IF ConsumeRefuses(w) THEN w ELSE CasResult(w, w)

\* the select at the top of the OpenStream loop: either Done channel is ready
LoopCancelled(st) == sess[os[st].sid].cancelled \/ os[st].gone

\* what a stream has put on the wire: stream.Send adds the message at the end
StreamSend_Front(msgs, m) == <<m>> \o msgs
StreamSend(msgs, m) == Append(msgs, m)

\* produced: how many batches with records ReadBatch has returned to the stream;
\* out: the batches the stream has sent, each named by its number among those
IdleOs == [pc |-> "idle", sid |-> 0, win |-> 0, result |-> "none",
           gone |-> FALSE, afterClose |-> FALSE, produced |-> 0, out |-> <<>>]
IdleAk == [pc |-> "idle", sid |-> 0, win |-> 0, result |-> "none", afterClose |-> FALSE]
IdleCl == [pc |-> "idle", sid |-> 0, result |-> "none"]

\* v1 server state after NewServer
SrcStart ==
    /\ sessions = {}
    /\ count = 0
    /\ instances = {}
    /\ sess = [s \in Sessions |-> NewSession]
    /\ spi = [s \in Sessions |-> [executing |-> {}, readCalls |-> 0, closeCalls |-> 0,
                                   posSupplied |-> FALSE]]
    /\ sent = [s \in Sessions |-> 0]
    /\ cr = [s \in Sessions |-> [pc |-> "idle", result |-> "none", initErr |-> FALSE]]
    /\ os = [st \in Streams |-> IdleOs]
    /\ ak = [a \in AckCalls |-> IdleAk]
    /\ cl = [c \in CloseCalls |-> IdleCl]
    /\ calls = 0

\* ---- Server.CreateSession
\* spi := s.factory(); spi.Init(ctx, req.ConfigJson) is entered
CreateStart(c) ==
    /\ cr[c].pc = "idle"
    /\ c > 1 => cr[c - 1].pc # "idle"
    /\ calls < MaxCalls
    /\ calls' = calls + 1
    /\ cr' = [cr EXCEPT ![c].pc = "init"]
    /\ spi' = [spi EXCEPT ![c].executing = @ \cup {<<"Init", c>>}]
    /\ UNCHANGED <<sessions, count, instances, sess, sent, os, ak, cl>>
    /\ UNCHANGED notSrc

\* Init returned an error: return nil, fmt.Errorf("SPI init failed: %w", err)
CreateInitFail_Swallowed(c) ==
    /\ cr[c].pc = "init"
    /\ cr' = [cr EXCEPT ![c].pc = "create", ![c].initErr = TRUE]
    /\ spi' = [spi EXCEPT ![c].executing = @ \ {<<"Init", c>>}]
    /\ UNCHANGED <<sessions, count, instances, sess, sent, os, ak, cl, calls>>
    /\ UNCHANGED notSrc
CreateInitFail(c) ==
    /\ cr[c].pc = "init"
    /\ cr' = [cr EXCEPT ![c].pc = "done", ![c].result = "err", ![c].initErr = TRUE]
    /\ spi' = [spi EXCEPT ![c].executing = @ \ {<<"Init", c>>}]
    /\ UNCHANGED <<sessions, count, instances, sess, sent, os, ak, cl, calls>>
    /\ UNCHANGED notSrc

\* Init returned nil
CreateInitOk(c) ==
    /\ cr[c].pc = "init"
    /\ cr' = [cr EXCEPT ![c].pc = "create"]
    /\ spi' = [spi EXCEPT ![c].executing = @ \ {<<"Init", c>>}]
    /\ UNCHANGED <<sessions, count, instances, sess, sent, os, ak, cl, calls>>
    /\ UNCHANGED notSrc

\* sess := s.sessions.Create(...)   (NewSession, sessions.Store, count.Add(1))
CreateRegister(c) ==
    /\ cr[c].pc = "create"
    /\ sessions' = sessions \cup {c}
    /\ count' = count + 1
    /\ sess' = [sess EXCEPT ![c] = NewSession]
    /\ cr' = [cr EXCEPT ![c].pc = "store"]
    /\ UNCHANGED <<instances, spi, sent, os, ak, cl, calls>>
    /\ UNCHANGED notSrc

\* (variant: the session id is returned without the instance being stored)
CreateStore_NoInstance(c) ==
    /\ cr[c].pc = "store"
    /\ cr' = [cr EXCEPT ![c].pc = "done", ![c].result = "ok"]
    /\ UNCHANGED <<sessions, count, instances, sess, spi, sent, os, ak, cl, calls>>
    /\ UNCHANGED notSrc

\* s.instances.Store(sess.ID, spi); return the session id
CreateStore(c) ==
    /\ cr[c].pc = "store"
    /\ instances' = instances \cup {c}
    /\ cr' = [cr EXCEPT ![c].pc = "done", ![c].result = "ok"]
    /\ UNCHANGED <<sessions, count, sess, spi, sent, os, ak, cl, calls>>
    /\ UNCHANGED notSrc

\* ---- Server.OpenStream
\* sess, err := s.sessions.Get(req.SessionId); if err != nil { return err }
OpenGet(st, id, n) ==
    /\ os[st].pc = "idle"
    /\ st > 1 => os[st - 1].pc # "idle"
    /\ calls < MaxCalls
    /\ calls' = calls + 1
    /\ id \in KnownIds
    /\ os' = [os EXCEPT ![st] =
                IF MgrGet(id) = "ok"
                THEN [IdleOs EXCEPT !.pc = "load", !.sid = id, !.win = n]
                ELSE [IdleOs EXCEPT !.pc = "done", !.sid = id, !.result = MgrGet(id),
                                    !.afterClose = (id \in Sessions /\ sess[id].closed)]]
    /\ UNCHANGED <<sessions, count, instances, sess, spi, sent, cr, ak, cl>>
    /\ UNCHANGED notSrc

\* spiVal, ok := s.instances.Load(req.SessionId); if !ok { return error }
OpenLoadSpi(st) ==
    /\ os[st].pc = "load"
    /\ os' = [os EXCEPT ![st] =
                IF os[st].sid \in instances
                THEN [@ EXCEPT !.pc = "update"]
                ELSE [@ EXCEPT !.pc = "done", !.win = 0, !.result = "nospi",
                               !.afterClose = sess[os[st].sid].closed]]
    /\ UNCHANGED <<sessions, count, instances, sess, spi, sent, cr, ak, cl, calls>>
    /\ UNCHANGED notSrc

\* sess.UpdateWindow(req.WindowSize)
OpenUpdateWindow(st) ==
    /\ os[st].pc = "update"
    /\ sess' = [sess EXCEPT ![os[st].sid].window = UpdateWindow(@, os[st].win)]
    /\ spi' = [spi EXCEPT ![os[st].sid].posSupplied = (@ \/ os[st].win > 0)]
    /\ os' = [os EXCEPT ![st].pc = "check", ![st].win = 0]
    /\ UNCHANGED <<sessions, count, instances, sent, cr, ak, cl, calls>>
    /\ UNCHANGED notSrc

\* select { case <-sess.Context().Done(): return nil
\*          case <-stream.Context().Done(): return nil
\*          default: }
LoopCheck(st) ==
    /\ os[st].pc = "check"
    /\ os' = [os EXCEPT ![st] =
                IF LoopCancelled(st)
                THEN [@ EXCEPT !.pc = "done", !.result = "nil"]
                ELSE [@ EXCEPT !.pc = "consume"]]
    /\ UNCHANGED <<sessions, count, instances, sess, spi, sent, cr, ak, cl, calls>>
    /\ UNCHANGED notSrc

\* if !sess.ConsumeWindow() { continue }
LoopConsume(st) ==
    /\ os[st].pc = "consume"
    /\ LET w == sess[os[st].sid].window IN
       /\ sess' = [sess EXCEPT ![os[st].sid].window = ConsumeWindow(w)]
       /\ os' = [os EXCEPT ![st].pc = IF ConsumeRefuses(w) THEN "check" ELSE "read"]
    /\ UNCHANGED <<sessions, count, instances, spi, sent, cr, ak, cl, calls>>
    /\ UNCHANGED notSrc

\* b, err := spi.ReadBatch(stream.Context()) is entered
ReadBegin(st) ==
    /\ os[st].pc = "read"
    /\ spi' = [spi EXCEPT ![os[st].sid].executing = @ \cup {<<"ReadBatch", st>>},
                          ![os[st].sid].readCalls = @ + 1]
    /\ os' = [os EXCEPT ![st].pc = "reading"]
    /\ UNCHANGED <<sessions, count, instances, sess, sent, cr, ak, cl, calls>>
    /\ UNCHANGED notSrc

\* ReadBatch returns: EOF ends the stream, another error or an empty batch
\* `continue`s, a batch is packed (PackBatch never fails) and goes to Send
ReadEnd(st, out) ==
    /\ os[st].pc = "reading"
    /\ spi' = [spi EXCEPT ![os[st].sid].executing = @ \ {<<"ReadBatch", st>>}]
    /\ os' = [os EXCEPT ![st] =
                CASE out = "eof" -> [@ EXCEPT !.pc = "done", !.result = "nil"]
                  [] out = "batch" -> [@ EXCEPT !.pc = "send", !.produced = @ + 1]
                  [] OTHER -> [@ EXCEPT !.pc = "check"]]
    /\ UNCHANGED <<sessions, count, instances, sess, sent, cr, ak, cl, calls>>
    /\ UNCHANGED notSrc

\* stream.Send(...): an error (the transport is gone) is returned
Send(st) ==
    /\ os[st].pc = "send"
    /\ IF os[st].gone
       THEN /\ os' = [os EXCEPT ![st].pc = "done", ![st].result = "senderr"]
            /\ sent' = sent
       ELSE /\ os' = [os EXCEPT ![st].pc = "check",
                                  ![st].out = StreamSend(@, os[st].produced)]
            /\ sent' = [sent EXCEPT ![os[st].sid] = @ + 1]
    /\ UNCHANGED <<sessions, count, instances, sess, spi, cr, ak, cl, calls>>
    /\ UNCHANGED notSrc

\* the host or the transport cancels the stream's context
TransportCancel(st) ==
    /\ os[st].pc \notin {"idle", "done"}
    /\ ~os[st].gone
    /\ os' = [os EXCEPT ![st].gone = TRUE]
    /\ UNCHANGED <<sessions, count, instances, sess, spi, sent, cr, ak, cl, calls>>
    /\ UNCHANGED notSrc

\* ---- Server.Ack
\* sess, err := s.sessions.Get(req.SessionId)
\* if err != nil { return &AckResponse{Success: false, Error: err.Error()}, nil }
AckGet(a, id, n) ==
    /\ ak[a].pc = "idle"
    /\ a > 1 => ak[a - 1].pc # "idle"
    /\ calls < MaxCalls
    /\ calls' = calls + 1
    /\ id \in KnownIds
    /\ ak' = [ak EXCEPT ![a] =
                IF MgrGet(id) = "ok"
                THEN [IdleAk EXCEPT !.pc = "update", !.sid = id, !.win = n]
                ELSE [IdleAk EXCEPT !.pc = "done", !.sid = id, !.result = MgrGet(id),
                                    !.afterClose = (id \in Sessions /\ sess[id].closed)]]
    /\ UNCHANGED <<sessions, count, instances, sess, spi, sent, cr, os, cl>>
    /\ UNCHANGED notSrc

\* sess.UpdateWindow(req.NewWindow); return &AckResponse{Success: true}, nil
AckUpdateWindow(a) ==
    /\ ak[a].pc = "update"
    /\ sess' = [sess EXCEPT ![ak[a].sid].window = UpdateWindow(@, ak[a].win)]
    /\ spi' = [spi EXCEPT ![ak[a].sid].posSupplied = (@ \/ ak[a].win > 0)]
    /\ ak' = [ak EXCEPT ![a].pc = "done", ![a].result = "ok"]
    /\ UNCHANGED <<sessions, count, instances, sent, cr, os, cl, calls>>
    /\ UNCHANGED notSrc

\* ---- Session.SetData, called by user code that holds the Session
\* (variant: one data map shared by all sessions)
SetData_Shared(s, key, value) ==
    /\ cr[s].pc \in {"store", "done"}
    /\ ~cr[s].initErr
    /\ calls < MaxCalls
    /\ calls' = calls + 1
    /\ sess' = [t \in Sessions |-> [sess[t] EXCEPT !.data[key] = value]]
    /\ UNCHANGED <<sessions, count, instances, spi, sent, cr, os, ak, cl>>
    /\ UNCHANGED notSrc

\* s.dataMu.Lock(); s.data[key] = value; s.dataMu.Unlock()
SetData(s, key, value) ==
    /\ cr[s].pc \in {"store", "done"}
    /\ ~cr[s].initErr
    /\ calls < MaxCalls
    /\ calls' = calls + 1
    /\ sess' = [sess EXCEPT ![s].data[key] = value]
    /\ UNCHANGED <<sessions, count, instances, spi, sent, cr, os, ak, cl>>
    /\ UNCHANGED notSrc

\* ---- Server.CloseSession
\* if spiVal, ok := s.instances.LoadAndDelete(req.SessionId); ok { spi.Close() ...
CloseLoadAndDelete(c, id) ==
    /\ cl[c].pc = "idle"
    /\ c > 1 => cl[c - 1].pc # "idle"
    /\ calls < MaxCalls
    /\ calls' = calls + 1
    /\ id \in KnownIds
    /\ instances' = LoadAndDelete(instances, id)
    /\ IF id \in instances
       THEN /\ spi' = [spi EXCEPT ![id].executing = @ \cup {<<"Close", c>>},
                                  ![id].closeCalls = @ + 1]
            /\ cl' = [cl EXCEPT ![c].pc = "closing", ![c].sid = id]
       ELSE /\ spi' = spi
            /\ cl' = [cl EXCEPT ![c].pc = "mgr", ![c].sid = id]
    /\ UNCHANGED <<sessions, count, sess, sent, cr, os, ak>>
    /\ UNCHANGED notSrc

\* spi.Close() returns; an error is only logged
CloseSpiReturn(c) ==
    /\ cl[c].pc = "closing"
    /\ spi' = [spi EXCEPT ![cl[c].sid].executing = @ \ {<<"Close", c>>}]
    /\ cl' = [cl EXCEPT ![c].pc = "mgr"]
    /\ UNCHANGED <<sessions, count, instances, sess, sent, cr, os, ak, calls>>
    /\ UNCHANGED notSrc

\* s.sessions.Close(id): v, ok := m.sessions.LoadAndDelete(id);
\* if !ok { return ErrSessionNotFound }; m.count.Add(-1); v.(*Session).Close()
\* either result is only logged: CloseSession returns &planxv1.Empty{}, nil
CloseMgrClose(c) ==
    /\ cl[c].pc = "mgr"
    /\ sessions' = LoadAndDelete(sessions, cl[c].sid)
    /\ IF cl[c].sid \in sessions
       THEN /\ count' = count - 1
            /\ sess' = [sess EXCEPT ![cl[c].sid] = SessionClose(@)]
       ELSE /\ count' = count
            /\ sess' = sess
    /\ cl' = [cl EXCEPT ![c].pc = "done", ![c].result = "ok"]
    /\ UNCHANGED <<instances, spi, sent, cr, os, ak, calls>>
    /\ UNCHANGED notSrc

Next ==
    \/ \E c \in Sessions : CreateStart(c)
    \/ \E c \in Sessions : CreateInitFail(c)
    \/ \E c \in Sessions : CreateInitOk(c)
    \/ \E c \in Sessions : CreateRegister(c)
    \/ \E c \in Sessions : CreateStore(c)
    \/ \E st \in Streams, id \in 0..MaxCalls, n \in GrantValues : OpenGet(st, id, n)
    \/ \E st \in Streams : OpenLoadSpi(st)
    \/ \E st \in Streams : OpenUpdateWindow(st)
    \/ \E st \in Streams : LoopCheck(st)
    \/ \E st \in Streams : LoopConsume(st)
    \/ \E st \in Streams : ReadBegin(st)
    \/ \E st \in Streams, out \in ReadOutcomes : ReadEnd(st, out)
    \/ \E st \in Streams : Send(st)
    \/ \E st \in Streams : TransportCancel(st)
    \/ \E a \in AckCalls, id \in 0..MaxCalls, n \in GrantValues : AckGet(a, id, n)
    \/ \E a \in AckCalls : AckUpdateWindow(a)
    \/ \E s \in Sessions, key \in DataKeys, value \in DataValues : SetData(s, key, value)
    \/ \E c \in CloseCalls, id \in 0..MaxCalls : CloseLoadAndDelete(c, id)
    \/ \E c \in CloseCalls : CloseSpiReturn(c)
    \/ \E c \in CloseCalls : CloseMgrClose(c)

(***************************************************************************)
(* runtime.SourceServer (v4): sessions live in a Manager[T] (a map under a  *)
(* RWMutex: Add, Get and Remove are single steps), each with a flow.Window  *)
(* whose Acquire and Release take the steps of the primitive above.         *)
(* A Window's mu and wait list hold the calls <<"os", st>> and <<"ak", a>>. *)
(***************************************************************************)
\* what SourceSPI.ReadBatch (then codec.Pack) can yield: a payload, an error, or
\* the end-of-input error io.EOF (which the handler treats as any other error)
RtReadOutcomes == {"batch", "error", "eof"}

RtIdleOs == [pc |-> "idle", sid |-> 0, amt |-> 0, result |-> "none", gone |-> FALSE]
RtIdleAk == [pc |-> "idle", sid |-> 0, amt |-> 0, result |-> "none"]
RtIdleCl == [pc |-> "idle", sid |-> 0, result |-> "none"]

\* v4 server state after NewSourceServer
RtStart ==
    /\ rtSessions = {}
    /\ rtWin = [s \in Sessions |-> NewWindow(0)]
    /\ rtSpi = [s \in Sessions |-> [executing |-> {}, readCalls |-> 0, closeCalls |-> 0,
                                     posSupplied |-> FALSE]]
    /\ rtSent = [s \in Sessions |-> 0]
    /\ rtCr = [s \in Sessions |-> [pc |-> "idle", result |-> "none", initErr |-> FALSE]]
    /\ rtOs = [st \in Streams |-> RtIdleOs]
    /\ rtAk = [a \in AckCalls |-> RtIdleAk]
    /\ rtCl = [c \in CloseCalls |-> RtIdleCl]
    /\ rtCalls = 0

RtKnownIds == {s \in Sessions : rtCr[s].result = "ok"} \cup {0}

\* ---- SourceServer.CreateSession
\* spi := s.factory(); spi.Init(ctx, req.Config) is entered
RtCreateStart(c) ==
    /\ rtCr[c].pc = "idle"
    /\ c > 1 => rtCr[c - 1].pc # "idle"
    /\ rtCalls < MaxCalls
    /\ rtCalls' = rtCalls + 1
    /\ rtCr' = [rtCr EXCEPT ![c].pc = "init"]
    /\ rtSpi' = [rtSpi EXCEPT ![c].executing = @ \cup {<<"Init", c>>}]
    /\ UNCHANGED <<rtSessions, rtWin, rtSent, rtOs, rtAk, rtCl>>
    /\ UNCHANGED notRt

\* if err := spi.Init(...); err != nil { return nil, err }
RtCreateInitFail(c) ==
    /\ rtCr[c].pc = "init"
    /\ rtCr' = [rtCr EXCEPT ![c].pc = "done", ![c].result = "err", ![c].initErr = TRUE]
    /\ rtSpi' = [rtSpi EXCEPT ![c].executing = @ \ {<<"Init", c>>}]
    /\ UNCHANGED <<rtSessions, rtWin, rtSent, rtOs, rtAk, rtCl, rtCalls>>
    /\ UNCHANGED notRt

\* Init returned nil
RtCreateInitOk(c) ==
    /\ rtCr[c].pc = "init"
    /\ rtCr' = [rtCr EXCEPT ![c].pc = "add"]
    /\ rtSpi' = [rtSpi EXCEPT ![c].executing = @ \ {<<"Init", c>>}]
    /\ UNCHANGED <<rtSessions, rtWin, rtSent, rtOs, rtAk, rtCl, rtCalls>>
    /\ UNCHANGED notRt

\* id := generateSessionID(); s.sessions.Add(id, &sourceSession{spi, flow.NewWindow(0)})
RtCreateAdd(c) ==
    /\ rtCr[c].pc = "add"
    /\ rtSessions' = rtSessions \cup {c}
    /\ rtWin' = [rtWin EXCEPT ![c] = NewWindow(0)]
    /\ rtCr' = [rtCr EXCEPT ![c].pc = "done", ![c].result = "ok"]
    /\ UNCHANGED <<rtSpi, rtSent, rtOs, rtAk, rtCl, rtCalls>>
    /\ UNCHANGED notRt

\* ---- SourceServer.OpenStream
\* sess, ok := s.sessions.Get(req.SessionId); if !ok { return nil }
RtOpenGet(st, id, n) ==
    /\ rtOs[st].pc = "idle"
    /\ st > 1 => rtOs[st - 1].pc # "idle"
    /\ rtCalls < MaxCalls
    /\ rtCalls' = rtCalls + 1
    /\ id \in RtKnownIds
    /\ rtOs' = [rtOs EXCEPT ![st] =
                  IF id \in rtSessions
                  THEN [RtIdleOs EXCEPT !.pc = "rel_lock", !.sid = id, !.amt = n]
                  ELSE [RtIdleOs EXCEPT !.pc = "done", !.sid = id, !.result = "nil"]]
    /\ UNCHANGED <<rtSessions, rtWin, rtSpi, rtSent, rtCr, rtAk, rtCl>>
    /\ UNCHANGED notRt

\* sess.window.Release(int(req.InitialWindow)): w.mu.Lock()
RtOpenReleaseLock(st) ==
    /\ rtOs[st].pc = "rel_lock"
    /\ WinCanLock(rtWin[rtOs[st].sid])
    /\ rtWin' = [rtWin EXCEPT ![rtOs[st].sid] = WinLock(@, <<"os", st>>)]
    /\ rtOs' = [rtOs EXCEPT ![st].pc = "rel_add"]
    /\ UNCHANGED <<rtSessions, rtSpi, rtSent, rtCr, rtAk, rtCl, rtCalls>>
    /\ UNCHANGED notRt

\* Release: w.value += n ; w.mu.Unlock()
RtOpenReleaseAdd(st) ==
    /\ rtOs[st].pc = "rel_add"
    /\ rtWin' = [rtWin EXCEPT ![rtOs[st].sid] = WinAdd(@, rtOs[st].amt)]
    /\ rtSpi' = [rtSpi EXCEPT ![rtOs[st].sid].posSupplied = (@ \/ rtOs[st].amt > 0)]
    /\ rtOs' = [rtOs EXCEPT ![st].pc = "rel_bcast", ![st].amt = 0]
    /\ UNCHANGED <<rtSessions, rtSent, rtCr, rtAk, rtCl, rtCalls>>
    /\ UNCHANGED notRt

\* Release: w.cond.Broadcast()
RtOpenReleaseBroadcast(st) ==
    /\ rtOs[st].pc = "rel_bcast"
    /\ rtWin' = [rtWin EXCEPT ![rtOs[st].sid] = WinBroadcast(@)]
    /\ rtOs' = [rtOs EXCEPT ![st].pc = "acq_lock"]
    /\ UNCHANGED <<rtSessions, rtSpi, rtSent, rtCr, rtAk, rtCl, rtCalls>>
    /\ UNCHANGED notRt

\* for { sess.window.Acquire(): w.mu.Lock()
RtAcquireLock(st) ==
    /\ rtOs[st].pc = "acq_lock"
    /\ WinCanLock(rtWin[rtOs[st].sid])
    /\ rtWin' = [rtWin EXCEPT ![rtOs[st].sid] = WinLock(@, <<"os", st>>)]
    /\ rtOs' = [rtOs EXCEPT ![st].pc = "locked"]
    /\ UNCHANGED <<rtSessions, rtSpi, rtSent, rtCr, rtAk, rtCl, rtCalls>>
    /\ UNCHANGED notRt

\* Acquire: for w.value <= 0 { w.cond.Wait() }  (unlock and park)
RtAcquireWait(st) ==
    /\ rtOs[st].pc = "locked"
    /\ WinMustWait(rtWin[rtOs[st].sid])
    /\ rtWin' = [rtWin EXCEPT ![rtOs[st].sid] = WinWait(@, <<"os", st>>)]
    /\ rtOs' = [rtOs EXCEPT ![st].pc = "parked"]
    /\ UNCHANGED <<rtSessions, rtSpi, rtSent, rtCr, rtAk, rtCl, rtCalls>>
    /\ UNCHANGED notRt

\* cond.Wait() returns: a Broadcast took the call off the wait list; it re-locks mu
RtAcquireWake(st) ==
    /\ rtOs[st].pc = "parked"
    /\ <<"os", st>> \notin rtWin[rtOs[st].sid].waiters
    /\ WinCanLock(rtWin[rtOs[st].sid])
    /\ rtWin' = [rtWin EXCEPT ![rtOs[st].sid] = WinLock(@, <<"os", st>>)]
    /\ rtOs' = [rtOs EXCEPT ![st].pc = "locked"]
    /\ UNCHANGED <<rtSessions, rtSpi, rtSent, rtCr, rtAk, rtCl, rtCalls>>
    /\ UNCHANGED notRt

\* Acquire: w.value-- ; w.mu.Unlock()
RtAcquireTake(st) ==
    /\ rtOs[st].pc = "locked"
    /\ ~WinMustWait(rtWin[rtOs[st].sid])
    /\ rtWin' = [rtWin EXCEPT ![rtOs[st].sid] = WinTake(@)]
    /\ rtOs' = [rtOs EXCEPT ![st].pc = "read"]
    /\ UNCHANGED <<rtSessions, rtSpi, rtSent, rtCr, rtAk, rtCl, rtCalls>>
    /\ UNCHANGED notRt

\* b, err := sess.spi.ReadBatch() is entered
RtReadBegin(st) ==
    /\ rtOs[st].pc = "read"
    /\ rtSpi' = [rtSpi EXCEPT ![rtOs[st].sid].executing = @ \cup {<<"ReadBatch", st>>},
                              ![rtOs[st].sid].readCalls = @ + 1]
    /\ rtOs' = [rtOs EXCEPT ![st].pc = "reading"]
    /\ UNCHANGED <<rtSessions, rtWin, rtSent, rtCr, rtAk, rtCl, rtCalls>>
    /\ UNCHANGED notRt

\* ReadBatch returns; if err != nil { return err }; packed, err := s.codec.Pack(b);
\* if err != nil { return err }
RtReadEnd(st, out) ==
    /\ rtOs[st].pc = "reading"
    /\ rtSpi' = [rtSpi EXCEPT ![rtOs[st].sid].executing = @ \ {<<"ReadBatch", st>>}]
    /\ rtOs' = [rtOs EXCEPT ![st] =
                  IF out = "batch"
                  THEN [@ EXCEPT !.pc = "send"]
                  ELSE [@ EXCEPT !.pc = "done", !.result = "err"]]
    /\ UNCHANGED <<rtSessions, rtWin, rtSent, rtCr, rtAk, rtCl, rtCalls>>
    /\ UNCHANGED notRt

\* if err := stream.Send(...); err != nil { return err } }
RtSend(st) ==
    /\ rtOs[st].pc = "send"
    /\ IF rtOs[st].gone
       THEN /\ rtOs' = [rtOs EXCEPT ![st].pc = "done", ![st].result = "err"]
            /\ rtSent' = rtSent
       ELSE /\ rtOs' = [rtOs EXCEPT ![st].pc = "acq_lock"]
            /\ rtSent' = [rtSent EXCEPT ![rtOs[st].sid] = @ + 1]
    /\ UNCHANGED <<rtSessions, rtWin, rtSpi, rtCr, rtAk, rtCl, rtCalls>>
    /\ UNCHANGED notRt

\* the host or the transport cancels the stream's context
RtTransportCancel(st) ==
    /\ rtOs[st].pc \notin {"idle", "done"}
    /\ ~rtOs[st].gone
    /\ rtOs' = [rtOs EXCEPT ![st].gone = TRUE]
    /\ UNCHANGED <<rtSessions, rtWin, rtSpi, rtSent, rtCr, rtAk, rtCl, rtCalls>>
    /\ UNCHANGED notRt

\* ---- SourceServer.Ack
\* sess, ok := s.sessions.Get(req.SessionId); if ok { sess.window.Release(...) }
\* return &pb.AckResponse{}, nil
RtAckGet(a, id, n) ==
    /\ rtAk[a].pc = "idle"
    /\ a > 1 => rtAk[a - 1].pc # "idle"
    /\ rtCalls < MaxCalls
    /\ rtCalls' = rtCalls + 1
    /\ id \in RtKnownIds
    /\ rtAk' = [rtAk EXCEPT ![a] =
                  IF id \in rtSessions
                  THEN [RtIdleAk EXCEPT !.pc = "rel_lock", !.sid = id, !.amt = n]
                  ELSE [RtIdleAk EXCEPT !.pc = "done", !.sid = id, !.result = "ok"]]
    /\ UNCHANGED <<rtSessions, rtWin, rtSpi, rtSent, rtCr, rtOs, rtCl>>
    /\ UNCHANGED notRt

\* Release: w.mu.Lock()
RtAckReleaseLock(a) ==
    /\ rtAk[a].pc = "rel_lock"
    /\ WinCanLock(rtWin[rtAk[a].sid])
    /\ rtWin' = [rtWin EXCEPT ![rtAk[a].sid] = WinLock(@, <<"ak", a>>)]
    /\ rtAk' = [rtAk EXCEPT ![a].pc = "rel_add"]
    /\ UNCHANGED <<rtSessions, rtSpi, rtSent, rtCr, rtOs, rtCl, rtCalls>>
    /\ UNCHANGED notRt

\* Release: w.value += n ; w.mu.Unlock()
RtAckReleaseAdd(a) ==
    /\ rtAk[a].pc = "rel_add"
    /\ rtWin' = [rtWin EXCEPT ![rtAk[a].sid] = WinAdd(@, rtAk[a].amt)]
    /\ rtSpi' = [rtSpi EXCEPT ![rtAk[a].sid].posSupplied = (@ \/ rtAk[a].amt > 0)]
    /\ rtAk' = [rtAk EXCEPT ![a].pc = "rel_bcast", ![a].amt = 0]
    /\ UNCHANGED <<rtSessions, rtSent, rtCr, rtOs, rtCl, rtCalls>>
    /\ UNCHANGED notRt

\* Release: w.cond.Broadcast(); Ack returns
RtAckReleaseBroadcast(a) ==
    /\ rtAk[a].pc = "rel_bcast"
    /\ rtWin' = [rtWin EXCEPT ![rtAk[a].sid] = WinBroadcast(@)]
    /\ rtAk' = [rtAk EXCEPT ![a].pc = "done", ![a].result = "ok"]
    /\ UNCHANGED <<rtSessions, rtSpi, rtSent, rtCr, rtOs, rtCl, rtCalls>>
    /\ UNCHANGED notRt

\* ---- SourceServer.CloseSession
\* sess, ok := s.sessions.Get(req.SessionId); if ok { _ = sess.spi.Close() ...
RtCloseGet(c, id) ==
    /\ rtCl[c].pc = "idle"
    /\ c > 1 => rtCl[c - 1].pc # "idle"
    /\ rtCalls < MaxCalls
    /\ rtCalls' = rtCalls + 1
    /\ id \in RtKnownIds
    /\ IF id \in rtSessions
       THEN /\ rtSpi' = [rtSpi EXCEPT ![id].executing = @ \cup {<<"Close", c>>},
                                      ![id].closeCalls = @ + 1]
            /\ rtCl' = [rtCl EXCEPT ![c].pc = "closing", ![c].sid = id]
       ELSE /\ rtSpi' = rtSpi
            /\ rtCl' = [rtCl EXCEPT ![c].pc = "done", ![c].sid = id, ![c].result = "ok"]
    /\ UNCHANGED <<rtSessions, rtWin, rtSent, rtCr, rtOs, rtAk>>
    /\ UNCHANGED notRt

\* spi.Close() returns (its error is dropped)
RtCloseSpiReturn(c) ==
    /\ rtCl[c].pc = "closing"
    /\ rtSpi' = [rtSpi EXCEPT ![rtCl[c].sid].executing = @ \ {<<"Close", c>>}]
    /\ rtCl' = [rtCl EXCEPT ![c].pc = "remove"]
    /\ UNCHANGED <<rtSessions, rtWin, rtSent, rtCr, rtOs, rtAk, rtCalls>>
    /\ UNCHANGED notRt

\* s.sessions.Remove(req.SessionId) }; return &pb.Empty{}, nil
RtCloseRemove(c) ==
    /\ rtCl[c].pc = "remove"
    /\ rtSessions' = rtSessions \ {rtCl[c].sid}
    /\ rtCl' = [rtCl EXCEPT ![c].pc = "done", ![c].result = "ok"]
    /\ UNCHANGED <<rtWin, rtSpi, rtSent, rtCr, rtOs, rtAk, rtCalls>>
    /\ UNCHANGED notRt

\* the steps of calls that are running (the scheduler runs them)
RtRun ==
    \/ \E c \in Sessions : RtCreateInitFail(c)
    \/ \E c \in Sessions : RtCreateInitOk(c)
    \/ \E c \in Sessions : RtCreateAdd(c)
    \/ \E st \in Streams : RtOpenReleaseLock(st)
    \/ \E st \in Streams : RtOpenReleaseAdd(st)
    \/ \E st \in Streams : RtOpenReleaseBroadcast(st)
    \/ \E st \in Streams : RtAcquireLock(st)
    \/ \E st \in Streams : RtAcquireWait(st)
    \/ \E st \in Streams : RtAcquireWake(st)
    \/ \E st \in Streams : RtAcquireTake(st)
    \/ \E st \in Streams : RtReadBegin(st)
    \/ \E st \in Streams, out \in RtReadOutcomes : RtReadEnd(st, out)
    \/ \E st \in Streams : RtSend(st)
    \/ \E a \in AckCalls : RtAckReleaseLock(a)
    \/ \E a \in AckCalls : RtAckReleaseAdd(a)
    \/ \E a \in AckCalls : RtAckReleaseBroadcast(a)
    \/ \E c \in CloseCalls : RtCloseSpiReturn(c)
    \/ \E c \in CloseCalls : RtCloseRemove(c)

\* the calls the host starts, and its cancelling a stream
RtHost ==
    \/ \E c \in Sessions : RtCreateStart(c)
    \/ \E st \in Streams, id \in 0..MaxCalls, n \in GrantValues : RtOpenGet(st, id, n)
    \/ \E st \in Streams : RtTransportCancel(st)
    \/ \E a \in AckCalls, id \in 0..MaxCalls, n \in GrantValues : RtAckGet(a, id, n)
    \/ \E c \in CloseCalls, id \in 0..MaxCalls : RtCloseGet(c, id)

NextRuntime == RtRun \/ RtHost

(***************************************************************************)
(* batch.PackBatch / batch.UnpackBatch.                                     *)
(* A []byte or string is kept as its runs of equal bytes: a sequence of     *)
(* <<b, end>>, byte b repeated up to offset end (exclusive), adjacent runs  *)
(* holding different bytes.  A uint32 read from a buffer is kept as its two *)
(* 16-bit halves <<hi, lo>>.  A Go map is a function from its keys to its   *)
(* values.                                                                  *)
(***************************************************************************)
\* n copies of byte b
Run(b, n) == IF n = 0 THEN <<>> ELSE <<<<b, n>>>>

\* len(s)
BLen(s) == IF s = <<>> THEN 0 ELSE s[Len(s)][2]

\* the runs of t, moved d bytes on
BShift(t, d) == [j \in 1..Len(t) |-> <<t[j][1], t[j][2] + d>>]

\* append(s, t...)
BCat(s, t) ==
    IF s = <<>> THEN t
    ELSE IF t = <<>> THEN s
    ELSE IF s[Len(s)][1] = t[1][1]
         THEN SubSeq(s, 1, Len(s) - 1) \o BShift(t, BLen(s))
         ELSE s \o BShift(t, BLen(s))

\* how many runs of s lie wholly within its first n bytes
BSkip(s, n) == Cardinality({k \in 1..Len(s) : s[k][2] <= n})

\* s[n:]
BDrop(s, n) ==
    IF BSkip(s, n) = Len(s) THEN <<>>
    ELSE [j \in 1..(Len(s) - BSkip(s, n)) |->
            <<s[j + BSkip(s, n)][1], s[j + BSkip(s, n)][2] - n>>]

\* s[:n]
BTake(s, n) ==
    IF BSkip(s, n) = Len(s) THEN s
    ELSE IF n > BLen(SubSeq(s, 1, BSkip(s, n)))
         THEN SubSeq(s, 1, BSkip(s, n)) \o <<<<s[BSkip(s, n) + 1][1], n>>>>
         ELSE SubSeq(s, 1, BSkip(s, n))

\* s[a:b]
BSlice(s, a, b) == BTake(BDrop(s, a), b - a)
\* s[i]
BAt(s, i) == s[BSkip(s, i) + 1][1]

\* const magicNumber uint32 = 0x504C4E58
magicNumber == 1347178072
\* const version uint32 = 1
version == 1
\* the number of values of a uint16 (string lengths are written as uint16)
Uint16Range == 65536

\* the halves of a uint32 below 2^31
U32Of(v) == <<v \div 65536, v % 65536>>
\* binary.BigEndian.AppendUint16(buf, v)
AppendUint16(buf, v) == BCat(buf, BCat(Run(v \div 256, 1), Run(v % 256, 1)))
\* binary.BigEndian.AppendUint32(buf, v)
AppendUint32(buf, v) == BCat(buf, AppendUint16(AppendUint16(<<>>, U32Of(v)[1]), U32Of(v)[2]))
\* binary.BigEndian.Uint16(data[offset:])
Uint16(data, offset) == BAt(data, offset) * 256 + BAt(data, offset + 1)
\* binary.BigEndian.Uint32(data[offset:])
Uint32(data, offset) == <<Uint16(data, offset), Uint16(data, offset + 2)>>

\* appendString: the length is converted to uint16, which keeps its low 16 bits
appendString(buf, s) == BCat(AppendUint16(buf, BLen(s) % Uint16Range), s)

RECURSIVE PackEntries(_, _, _)
\* `for k, v := range m { appendString(k); appendString(v) }`, the range
\* visiting the keys in the order ord
PackEntries(buf, m, ord) ==
    IF ord = <<>> THEN buf
    ELSE PackEntries(BCat(buf, appendString(appendString(<<>>, ord[1]), m[ord[1]])),
                     m, Tail(ord))

RECURSIVE PackRecords(_, _, _)
\* `for _, r := range b.Records { ... }`
PackRecords(buf, recs, ords) ==
    IF recs = <<>> THEN buf
    ELSE PackRecords(
            BCat(buf,
                 BCat(AppendUint32(PackEntries(AppendUint32(<<>>,
                                                            Cardinality(DOMAIN recs[1].Metadata)),
                                               recs[1].Metadata, ords[1]),
                                   BLen(recs[1].Payload)),
                      recs[1].Payload)),
            Tail(recs), Tail(ords))

\* PackBatch(b), its ranges over b.Context and over each record's Metadata
\* visiting the keys in the orders ctxOrd and metaOrds
PackBatch(b, ctxOrd, metaOrds) ==
    PackRecords(
        PackEntries(
            AppendUint32(AppendUint32(AppendUint32(AppendUint32(<<>>, magicNumber), version),
                                      Len(b.Records)),
                         Cardinality(DOMAIN b.Context)),
            b.Context, ctxOrd),
        b.Records, metaOrds)

\* the orders in which a range over map m can visit its keys
RangeOrders(m) ==
    {ord \in [1..Cardinality(DOMAIN m) -> DOMAIN m] :
        \A i, j \in DOMAIN ord : i # j => ord[i] # ord[j]}

\* m[key] = value
MapSet(m, key, value) ==
    [k \in DOMAIN m \cup {key} |-> IF k = key THEN value ELSE m[k]]
\* make(map[string]string)
EmptyMap == [k \in {} |-> <<>>]

\* the widths of int a build can have
IntBits == {32, 64}
\* i < n, for a loop index i and a uint32 n
IndexBelow(i, n) == n[1] >= 32768 \/ i < n[1] * 65536 + n[2]
\* offset+int(n) as the build computes it, for a uint32 n: "wrapped" when the
\* int sum is negative (int(n) is negative or the sum overflows 32 bits),
\* "large" when it is 2^31 or more on a 64-bit build
OffsetPlus(offset, n, bits) ==
    IF n[1] >= 32768
    THEN [kind |-> IF bits = 32 THEN "wrapped" ELSE "large", v |-> 0]
    ELSE IF n[1] * 65536 + n[2] > 2147483647 - offset
         THEN [kind |-> IF bits = 32 THEN "wrapped" ELSE "large", v |-> 0]
         ELSE [kind |-> "int", v |-> offset + (n[1] * 65536 + n[2])]

\* make([]Record, recordCount): with a 32-bit int a Record takes 16 bytes and
\* make panics (len out of range) from 2^28 records on; with a 64-bit int every
\* uint32 length is in range
MakeRecordsPanics(recordCount, bits) == bits = 32 /\ recordCount[1] >= 4096

\* readString(data, offset)
readString(data, offset) ==
    IF offset + 2 > BLen(data)
    THEN [ok |-> FALSE, s |-> <<>>, off |-> 0]
    ELSE IF offset + 2 + Uint16(data, offset) > BLen(data)
         THEN [ok |-> FALSE, s |-> <<>>, off |-> 0]
         ELSE [ok |-> TRUE,
               s |-> BSlice(data, offset + 2, offset + 2 + Uint16(data, offset)),
               off |-> offset + 2 + Uint16(data, offset)]

RECURSIVE ReadEntries(_, _, _, _, _)
\* `for i := uint32(0); i < contextCount; i++ { key, value := readString x 2; m[key] = value }`
ReadEntries(data, offset, i, entryCount, m) ==
    IF ~IndexBelow(i, entryCount) THEN [ok |-> TRUE, m |-> m, off |-> offset]
    ELSE LET key == readString(data, offset)
         IN IF ~key.ok THEN [ok |-> FALSE, m |-> m, off |-> 0]
            ELSE LET value == readString(data, key.off)
                 IN IF ~value.ok THEN [ok |-> FALSE, m |-> m, off |-> 0]
                    ELSE ReadEntries(data, value.off, i + 1, entryCount,
                                     MapSet(m, key.s, value.s))

RECURSIVE ReadRecords(_, _, _, _, _, _)
\* the record loop of UnpackBatch
ReadRecords(data, offset, i, recordCount, recs, bits) ==
    IF ~IndexBelow(i, recordCount) THEN [res |-> "ok", recs |-> recs]
    ELSE IF offset + 4 > BLen(data) THEN [res |-> "error", recs |-> <<>>]
    ELSE LET meta == ReadEntries(data, offset + 4, 0, Uint32(data, offset), EmptyMap)
         IN IF ~meta.ok THEN [res |-> "error", recs |-> <<>>]
            ELSE IF meta.off + 4 > BLen(data) THEN [res |-> "error", recs |-> <<>>]
            ELSE LET end == OffsetPlus(meta.off + 4, Uint32(data, meta.off), bits)
                 IN IF end.kind = "large" THEN [res |-> "error", recs |-> <<>>]
                    ELSE IF end.kind = "wrapped" THEN [res |-> "panic", recs |-> <<>>]
                    ELSE IF end.v > BLen(data) THEN [res |-> "error", recs |-> <<>>]
                    ELSE ReadRecords(data, end.v, i + 1, recordCount,
                                     Append(recs, [Metadata |-> meta.m,
                                                   Payload |-> BSlice(data, meta.off + 4, end.v)]),
                                     bits)

\* UnpackBatch(data) on a build whose int has `bits` bits
UnpackBatch(data, bits) ==
    IF BLen(data) < 16 THEN [res |-> "error", b |-> <<>>]
    ELSE IF Uint32(data, 0) # U32Of(magicNumber) THEN [res |-> "error", b |-> <<>>]
    ELSE IF Uint32(data, 4) # U32Of(version) THEN [res |-> "error", b |-> <<>>]
    ELSE LET context == ReadEntries(data, 16, 0, Uint32(data, 12), EmptyMap)
         IN IF ~context.ok THEN [res |-> "error", b |-> <<>>]
            ELSE IF MakeRecordsPanics(Uint32(data, 8), bits) THEN [res |-> "panic", b |-> <<>>]
            ELSE LET records == ReadRecords(data, context.off, 0, Uint32(data, 8), <<>>, bits)
                 IN IF records.res # "ok" THEN [res |-> records.res, b |-> <<>>]
                    ELSE [res |-> "ok",
                          b |-> [Records |-> records.recs, Context |-> context.m]]

\* ---- inputs of the codec
\* strings used as keys and values: "" and "k"; "v" and a string of 65536 'a's
CodecKeys == {<<>>, Run(107, 1)}
CodecValues == {Run(118, 1), Run(97, Uint16Range)}
\* payloads: none, and the bytes 01 02 02
CodecPayloads == {<<>>, BCat(Run(1, 1), Run(2, 2))}
\* the maps over these keys and values
CodecMaps == UNION {[ks -> CodecValues] : ks \in SUBSET CodecKeys}
CodecRecords == [Metadata : CodecMaps, Payload : CodecPayloads]
\* the batches of at most n records
BatchesUpTo(n) ==
    [Records : UNION {[1..k -> CodecRecords] : k \in 0..n}, Context : CodecMaps]

\* the orders the ranges of one PackBatch(b) call can take
MetaOrders(b) ==
    {ords \in [1..Len(b.Records) -> UNION {RangeOrders(m) : m \in CodecMaps}] :
        \A i \in 1..Len(b.Records) : ords[i] \in RangeOrders(b.Records[i].Metadata)}

\* the strings of batch b whose length does not fit a uint16
LongStrings(b) ==
    {x \in UNION ({DOMAIN b.Context \cup {b.Context[k] : k \in DOMAIN b.Context}}
                  \cup {DOMAIN b.Records[i].Metadata
                           \cup {b.Records[i].Metadata[k] : k \in DOMAIN b.Records[i].Metadata} :
                        i \in 1..Len(b.Records)}) :
        BLen(x) >= Uint16Range}

\* no call made yet on batch b, on a build whose int has `bits` bits
CodecStart(b, bits) ==
    /\ cdBits = bits
    /\ cdBatch = b
    /\ cdData = <<>>
    /\ cdOut = [res |-> "none", b |-> <<>>]
    /\ cdPc = "start"

\* packed, err := batch.PackBatch(b)
CodecPack ==
    /\ cdPc = "start"
    /\ \E ctxOrd \in RangeOrders(cdBatch.Context), metaOrds \in MetaOrders(cdBatch) :
          cdData' = PackBatch(cdBatch, ctxOrd, metaOrds)
    /\ cdPc' = "packed"
    /\ UNCHANGED <<cdBits, cdBatch, cdOut>>
    /\ UNCHANGED notCod

\* b, err := batch.UnpackBatch(data)
CodecUnpack ==
    /\ cdPc \in {"packed", "damaged"}
    /\ cdOut' = UnpackBatch(cdData, cdBits)
    /\ cdPc' = IF cdPc = "packed" THEN "unpacked" ELSE "unpacked_damaged"
    /\ UNCHANGED <<cdBits, cdBatch, cdData>>
    /\ UNCHANGED notCod

NextCodec == CodecPack \/ CodecUnpack

\* ---- buffers UnpackBatch has to reject
\* data with the bytes at offset.. replaced by bytes
BPut(data, offset, bytes) ==
    BCat(BCat(BTake(data, offset), bytes), BDrop(data, offset + BLen(bytes)))

\* TestInvalidMagicNumber: 16 zero bytes except byte 7 = 1
InvalidMagicData == BCat(BCat(Run(0, 7), Run(1, 1)), Run(0, 8))
\* magic fields other than "PLNX", version fields other than 1
WrongMagics == {Run(0, 4), BCat(Run(80, 1), BCat(Run(76, 1), BCat(Run(78, 1), Run(89, 1))))}
WrongVersions == {Run(0, 4), BCat(Run(0, 3), Run(2, 1))}
\* uint32 fields that announce more than data holds: len(data) itself, 2^28,
\* 2^31 - 1, 2^31 and 2^32 - 1
LargeFields(data) ==
    {AppendUint32(<<>>, BLen(data)), BCat(Run(16, 1), Run(0, 3)),
     BCat(Run(127, 1), Run(255, 3)), BCat(Run(128, 1), Run(0, 3)), Run(255, 4)}
\* where PackBatch(b) put its uint32 fields: record count and context count,
\* and the first record's metadata count and payload length when nothing
\* precedes them
Uint32Offsets(b) ==
    {8, 12} \cup (IF DOMAIN b.Context = {} /\ b.Records # <<>>
                   THEN {16} \cup (IF DOMAIN b.Records[1].Metadata = {} THEN {20} ELSE {})
                   ELSE {})
\* where PackBatch(b) put its first uint16 string length
Uint16Offsets(b) ==
    IF DOMAIN b.Context # {} THEN {16}
    ELSE IF b.Records # <<>> /\ DOMAIN b.Records[1].Metadata # {} THEN {20}
    ELSE {}
\* the fields of PackBatch(b) and what to write over them
Damages(b, data) ==
    ({0} \X WrongMagics) \cup ({4} \X WrongVersions)
        \cup (Uint32Offsets(b) \X LargeFields(data))
        \cup (Uint16Offsets(b) \X {Run(255, 2)})

\* the host sends a buffer that was never packed
CodecReceive(data) ==
    /\ cdPc = "start"
    /\ cdData' = data
    /\ cdPc' = "damaged"
    /\ UNCHANGED <<cdBits, cdBatch, cdOut>>
    /\ UNCHANGED notCod

\* the packed buffer arrives cut to its first n bytes
CodecTruncate(n) ==
    /\ cdPc = "packed"
    /\ n \in 0..(BLen(cdData) - 1)
    /\ cdData' = BTake(cdData, n)
    /\ cdPc' = "damaged"
    /\ UNCHANGED <<cdBits, cdBatch, cdOut>>
    /\ UNCHANGED notCod

\* the packed buffer arrives with one field overwritten
CodecOverwrite(offset, bytes) ==
    /\ cdPc = "packed"
    /\ <<offset, bytes>> \in Damages(cdBatch, cdData)
    /\ cdData' = BPut(cdData, offset, bytes)
    /\ cdPc' = "damaged"
    /\ UNCHANGED <<cdBits, cdBatch, cdOut>>
    /\ UNCHANGED notCod

\* the lengths a buffer is cut to: up to MaxCut bytes kept, or up to MaxCut
\* bytes lost
CutPoints(data) == (0..MaxCut) \cup {BLen(data) - k : k \in 1..MaxCut}

NextDecode ==
    \/ CodecPack
    \/ CodecReceive(InvalidMagicData)
    \/ \E n \in CutPoints(cdData) : CodecTruncate(n)
    \/ \E d \in Damages(cdBatch, cdData) : CodecOverwrite(d[1], d[2])
    \/ CodecUnpack

(***************************************************************************)
(* sink.Server and processor.Server (v1).  Both keep a session.Manager and  *)
(* an instances map, create and close sessions with the same code, and run  *)
(* one loop per Write / Process stream: Recv, instances.Load, UnpackBatch,   *)
(* the user's callback, Send.  They differ in what follows the callback.     *)
(***************************************************************************)
DataStreams == 1..NumDataStreams
\* what spi.Write / spi.Process can return
CallOutcomes == {"ok", "error"}

\* a packed batch of one record with payload 01 02 02, no metadata, no context
PlGoodFrame ==
    PackBatch([Records |-> <<[Metadata |-> EmptyMap, Payload |-> BCat(Run(1, 1), Run(2, 2))]>>,
               Context |-> EmptyMap], <<>>, <<<<>>>>)
\* the same frame with its record count overwritten by 2^28
PlHugeCountFrame == BPut(PlGoodFrame, 8, BCat(Run(16, 1), Run(0, 3)))
\* what the host can put in req.PackedBatch
PlFrames == {PlGoodFrame, InvalidMagicData, PlHugeCountFrame}

PlIdleSt == [pc |-> "recv", recvd |-> 0, sid |-> 0, frame |-> <<>>,
             acks |-> <<>>, gone |-> FALSE, result |-> "none"]

\* server state after NewServer, the host having opened its streams
PlStart(kind) ==
    /\ plKind = kind
    /\ plSessions = {}
    /\ plInstances = {}
    /\ plSpi = [s \in Sessions |-> [executing |-> {}, dataCalls |-> 0, closeCalls |-> 0]]
    /\ plCr = [s \in Sessions |-> [pc |-> "idle", result |-> "none", initErr |-> FALSE]]
    /\ plCl = [c \in CloseCalls |-> [pc |-> "idle", sid |-> 0, result |-> "none"]]
    /\ plSt = [w \in DataStreams |-> PlIdleSt]
    /\ plCalls = 0

PlKnownIds == {s \in Sessions : plCr[s].result = "ok"} \cup {0}

\* ---- Server.CreateSession
\* spi := s.factory(); spi.Init(ctx, req.ConfigJson) is entered
PlCreateStart(c) ==
    /\ plCr[c].pc = "idle"
    /\ c > 1 => plCr[c - 1].pc # "idle"
    /\ plCalls < MaxCalls
    /\ plCalls' = plCalls + 1
    /\ plCr' = [plCr EXCEPT ![c].pc = "init"]
    /\ plSpi' = [plSpi EXCEPT ![c].executing = @ \cup {<<"Init", c>>}]
    /\ UNCHANGED <<plKind, plSessions, plInstances, plCl, plSt>>
    /\ UNCHANGED notPl

\* if err := spi.Init(...); err != nil { return nil, fmt.Errorf(...) }
PlCreateInitFail(c) ==
    /\ plCr[c].pc = "init"
    /\ plCr' = [plCr EXCEPT ![c].pc = "done", ![c].result = "err", ![c].initErr = TRUE]
    /\ plSpi' = [plSpi EXCEPT ![c].executing = @ \ {<<"Init", c>>}]
    /\ UNCHANGED <<plKind, plSessions, plInstances, plCl, plSt, plCalls>>
    /\ UNCHANGED notPl

\* Init returned nil; sess := s.sessions.Create(...)
PlCreateInitOk(c) ==
    /\ plCr[c].pc = "init"
    /\ plCr' = [plCr EXCEPT ![c].pc = "store"]
    /\ plSpi' = [plSpi EXCEPT ![c].executing = @ \ {<<"Init", c>>}]
    /\ plSessions' = plSessions \cup {c}
    /\ UNCHANGED <<plKind, plInstances, plCl, plSt, plCalls>>
    /\ UNCHANGED notPl

\* s.instances.Store(sess.ID, spi); return the session id
PlCreateStore(c) ==
    /\ plCr[c].pc = "store"
    /\ plInstances' = plInstances \cup {c}
    /\ plCr' = [plCr EXCEPT ![c].pc = "done", ![c].result = "ok"]
    /\ UNCHANGED <<plKind, plSessions, plSpi, plCl, plSt, plCalls>>
    /\ UNCHANGED notPl

\* ---- Server.Write / Server.Process
\* req, err := stream.Recv() yields the host's next message
PlRecv(w, id, data) ==
    /\ plSt[w].pc = "recv"
    /\ ~plSt[w].gone
    /\ plCalls < MaxCalls
    /\ plCalls' = plCalls + 1
    /\ id \in PlKnownIds
    /\ plSt' = [plSt EXCEPT ![w].pc = "load", ![w].recvd = @ + 1,
                            ![w].sid = id, ![w].frame = data]
    /\ UNCHANGED <<plKind, plSessions, plInstances, plSpi, plCr, plCl>>
    /\ UNCHANGED notPl

\* req, err := stream.Recv(); if err != nil { return nil }
PlRecvErr(w) ==
    /\ plSt[w].pc = "recv"
    /\ plSt[w].gone
    /\ plSt' = [plSt EXCEPT ![w].pc = "done", ![w].result = "nil"]
    /\ UNCHANGED <<plKind, plSessions, plInstances, plSpi, plCr, plCl, plCalls>>
    /\ UNCHANGED notPl

\* the host closes the stream or the transport cancels it
PlTransportCancel(w) ==
    /\ plSt[w].pc \notin {"done", "panicked"}
    /\ ~plSt[w].gone
    /\ plSt' = [plSt EXCEPT ![w].gone = TRUE]
    /\ UNCHANGED <<plKind, plSessions, plInstances, plSpi, plCr, plCl, plCalls>>
    /\ UNCHANGED notPl

\* batch.UnpackBatch(req.PackedBatch) on the frame stream w holds
PlUnpack(w) == UnpackBatch(plSt[w].frame, cdBits)

\* spiVal, ok := s.instances.Load(req.SessionId); if !ok { continue }
\* b, err := batch.UnpackBatch(req.PackedBatch); if err != nil { continue }
\* (a panic in UnpackBatch unwinds the handler: the call never returns)
PlLoadUnpack(w) ==
    /\ plSt[w].pc = "load"
    /\ plSt' = [plSt EXCEPT ![w] =
                  IF plSt[w].sid \notin plInstances THEN [@ EXCEPT !.pc = "recv"]
                  ELSE IF PlUnpack(w).res = "ok" THEN [@ EXCEPT !.pc = "call"]
                  ELSE IF PlUnpack(w).res = "error" THEN [@ EXCEPT !.pc = "recv"]
                  ELSE [@ EXCEPT !.pc = "panicked", !.result = "panic"]]
    /\ UNCHANGED <<plKind, plSessions, plInstances, plSpi, plCr, plCl, plCalls>>
    /\ UNCHANGED notPl

\* spi.Write(stream.Context(), b) / spi.Process(stream.Context(), input) is entered
PlCallBegin(w) ==
    /\ plSt[w].pc = "call"
    /\ plSpi' = [plSpi EXCEPT ![plSt[w].sid].executing = @ \cup {<<"Data", w>>},
                              ![plSt[w].sid].dataCalls = @ + 1]
    /\ plSt' = [plSt EXCEPT ![w].pc = "calling"]
    /\ UNCHANGED <<plKind, plSessions, plInstances, plCr, plCl, plCalls>>
    /\ UNCHANGED notPl

\* (variant: a failing callback ends the Write call with the error)
SinkWriteEnd_EndsStream(w, out) ==
    /\ plKind = "sink"
    /\ plSt[w].pc = "calling"
    /\ plSpi' = [plSpi EXCEPT ![plSt[w].sid].executing = @ \ {<<"Data", w>>}]
    /\ plSt' = [plSt EXCEPT ![w] = IF out = "ok" THEN [@ EXCEPT !.pc = "send"]
                                   ELSE [@ EXCEPT !.pc = "done", !.result = "err"]]
    /\ UNCHANGED <<plKind, plSessions, plInstances, plCr, plCl, plCalls>>
    /\ UNCHANGED notPl

\* sink: the callback returns; on error the negative AckResponse is to be sent
SinkWriteEnd(w, out) ==
    /\ plKind = "sink"
    /\ plSt[w].pc = "calling"
    /\ plSpi' = [plSpi EXCEPT ![plSt[w].sid].executing = @ \ {<<"Data", w>>}]
    /\ plSt' = [plSt EXCEPT ![w].pc = IF out = "ok" THEN "send" ELSE "nack"]
    /\ UNCHANGED <<plKind, plSessions, plInstances, plCr, plCl, plCalls>>
    /\ UNCHANGED notPl

\* sink: stream.Send(&AckResponse{Success: false, Error: err.Error()}); continue
\* (the result of this Send is dropped)
SinkSendNack(w) ==
    /\ plKind = "sink"
    /\ plSt[w].pc = "nack"
    /\ plSt' = [plSt EXCEPT ![w].pc = "recv",
                            ![w].acks = IF plSt[w].gone THEN @
                                        ELSE StreamSend(@, [batch |-> plSt[w].recvd,
                                                            success |-> FALSE])]
    /\ UNCHANGED <<plKind, plSessions, plInstances, plSpi, plCr, plCl, plCalls>>
    /\ UNCHANGED notPl

\* (variant: a failing callback takes the session's instance away)
ProcessEnd_DropsInstance(w, out) ==
    /\ plKind = "processor"
    /\ plSt[w].pc = "calling"
    /\ plSpi' = [plSpi EXCEPT ![plSt[w].sid].executing = @ \ {<<"Data", w>>}]
    /\ plSt' = [plSt EXCEPT ![w].pc = IF out = "ok" THEN "send" ELSE "recv"]
    /\ plInstances' = IF out = "ok" THEN plInstances ELSE plInstances \ {plSt[w].sid}
    /\ UNCHANGED <<plKind, plSessions, plCr, plCl, plCalls>>
    /\ UNCHANGED notPl

\* processor: the callback returns; if err != nil { continue };
\* packed, err := batch.PackBatch(output) (PackBatch has no failing path)
ProcessEnd(w, out) ==
    /\ plKind = "processor"
    /\ plSt[w].pc = "calling"
    /\ plSpi' = [plSpi EXCEPT ![plSt[w].sid].executing = @ \ {<<"Data", w>>}]
    /\ plSt' = [plSt EXCEPT ![w].pc = IF out = "ok" THEN "send" ELSE "recv"]
    /\ UNCHANGED <<plKind, plSessions, plInstances, plCr, plCl, plCalls>>
    /\ UNCHANGED notPl

\* if err := stream.Send(response); err != nil { return err }
PlSend(w) ==
    /\ plSt[w].pc = "send"
    /\ plSt' = [plSt EXCEPT ![w] =
                  IF plSt[w].gone
                  THEN [@ EXCEPT !.pc = "done", !.result = "err"]
                  ELSE [@ EXCEPT !.pc = "recv",
                                 !.acks = StreamSend(@, [batch |-> plSt[w].recvd,
                                                         success |-> TRUE])]]
    /\ UNCHANGED <<plKind, plSessions, plInstances, plSpi, plCr, plCl, plCalls>>
    /\ UNCHANGED notPl

\* ---- Server.CloseSession
\* if spiVal, ok := s.instances.LoadAndDelete(req.SessionId); ok { spi.Close() ...
PlCloseLoadAndDelete(c, id) ==
    /\ plCl[c].pc = "idle"
    /\ c > 1 => plCl[c - 1].pc # "idle"
    /\ plCalls < MaxCalls
    /\ plCalls' = plCalls + 1
    /\ id \in PlKnownIds
    /\ plInstances' = LoadAndDelete(plInstances, id)
    /\ IF id \in plInstances
       THEN /\ plSpi' = [plSpi EXCEPT ![id].executing = @ \cup {<<"Close", c>>},
                                      ![id].closeCalls = @ + 1]
            /\ plCl' = [plCl EXCEPT ![c].pc = "closing", ![c].sid = id]
       ELSE /\ plSpi' = plSpi
            /\ plCl' = [plCl EXCEPT ![c].pc = "mgr", ![c].sid = id]
    /\ UNCHANGED <<plKind, plSessions, plCr, plSt>>
    /\ UNCHANGED notPl

\* spi.Close() returns; an error is only logged
PlCloseSpiReturn(c) ==
    /\ plCl[c].pc = "closing"
    /\ plSpi' = [plSpi EXCEPT ![plCl[c].sid].executing = @ \ {<<"Close", c>>}]
    /\ plCl' = [plCl EXCEPT ![c].pc = "mgr"]
    /\ UNCHANGED <<plKind, plSessions, plInstances, plCr, plSt, plCalls>>
    /\ UNCHANGED notPl

\* s.sessions.Close(req.SessionId) (its result is dropped); return &Empty{}, nil
PlCloseMgrClose(c) ==
    /\ plCl[c].pc = "mgr"
    /\ plSessions' = LoadAndDelete(plSessions, plCl[c].sid)
    /\ plCl' = [plCl EXCEPT ![c].pc = "done", ![c].result = "ok"]
    /\ UNCHANGED <<plKind, plInstances, plSpi, plCr, plSt, plCalls>>
    /\ UNCHANGED notPl

NextPlugin ==
    \/ \E c \in Sessions : PlCreateStart(c)
    \/ \E c \in Sessions : PlCreateInitFail(c)
    \/ \E c \in Sessions : PlCreateInitOk(c)
    \/ \E c \in Sessions : PlCreateStore(c)
    \/ \E w \in DataStreams, id \in 0..MaxCalls, data \in PlFrames : PlRecv(w, id, data)
    \/ \E w \in DataStreams : PlRecvErr(w)
    \/ \E w \in DataStreams : PlTransportCancel(w)
    \/ \E w \in DataStreams : PlLoadUnpack(w)
    \/ \E w \in DataStreams : PlCallBegin(w)
    \/ \E w \in DataStreams, out \in CallOutcomes : SinkWriteEnd(w, out)
    \/ \E w \in DataStreams : SinkSendNack(w)
    \/ \E w \in DataStreams, out \in CallOutcomes : ProcessEnd(w, out)
    \/ \E w \in DataStreams : PlSend(w)
    \/ \E c \in CloseCalls, id \in 0..MaxCalls : PlCloseLoadAndDelete(c, id)
    \/ \E c \in CloseCalls : PlCloseSpiReturn(c)
    \/ \E c \in CloseCalls : PlCloseMgrClose(c)

(***************************************************************************)
(* session.Manager under concurrent callers: Create, Close and CloseAll     *)
(* step by step (each sync.Map and atomic operation is one step), and       *)
(* Session.Close as its two steps, the CompareAndSwap and cancel().         *)
(***************************************************************************)
AllCalls == 1..NumCloseAll

MgIdleCl == [pc |-> "idle", sid |-> 0, result |-> "none"]
MgIdleAll == [pc |-> "idle", cur |-> 0, snap |-> {}, visited |-> {}]

\* a Manager after NewManager, nobody calling yet
MgStart ==
    /\ sessions = {} /\ count = 0
    /\ sess = [s \in Sessions |-> NewSession]
    /\ instances = {} /\ spi = <<>> /\ sent = <<>> /\ cr = <<>> /\ os = <<>>
    /\ ak = <<>> /\ cl = <<>> /\ calls = 0
    /\ mgCr = [c \in Sessions |-> "idle"]
    /\ mgCl = [k \in CloseCalls |-> MgIdleCl]
    /\ mgAll = [a \in AllCalls |-> MgIdleAll]
    /\ mgCancels = [s \in Sessions |-> 0]
    /\ mgCalls = 0

\* the ids a caller can hand to Close: the ones Create returned, and 0
MgKnownIds == {c \in Sessions : mgCr[c] = "done"} \cup {0}

\* Session.Close, first step: s.closed.CompareAndSwap(false, true)
SessionCas(s) == [s EXCEPT !.closed = TRUE]
\* a Close that stores the flag and cancels without looking at the old value
SessionCasWon_Always(s) == TRUE
\* what the CompareAndSwap returns: true to the one caller that found false
SessionCasWon(s) == ~s.closed
\* Session.Close, second step: s.cancel()
SessionCancel(s) == [s EXCEPT !.cancelled = TRUE]

\* Create: s := NewSession(...); m.sessions.Store(s.ID, s)
MgCreateStore(c) ==
    /\ mgCr[c] = "idle"
    /\ c > 1 => mgCr[c - 1] # "idle"
    /\ mgCalls < MaxCalls
    /\ mgCalls' = mgCalls + 1
    /\ sessions' = sessions \cup {c}
    /\ mgCr' = [mgCr EXCEPT ![c] = "add"]
    /\ UNCHANGED <<count, sess, mgCl, mgAll, mgCancels>>
    /\ UNCHANGED notMg

\* Create: m.count.Add(1); return s
MgCreateAdd(c) ==
    /\ mgCr[c] = "add"
    /\ count' = count + 1
    /\ mgCr' = [mgCr EXCEPT ![c] = "done"]
    /\ UNCHANGED <<sessions, sess, mgCl, mgAll, mgCancels, mgCalls>>
    /\ UNCHANGED notMg

\* Close: v, ok := m.sessions.LoadAndDelete(id); if !ok { return ErrSessionNotFound }
MgCloseLoadAndDelete(k, id) ==
    /\ mgCl[k].pc = "idle"
    /\ k > 1 => mgCl[k - 1].pc # "idle"
    /\ mgCalls < MaxCalls
    /\ mgCalls' = mgCalls + 1
    /\ id \in MgKnownIds
    /\ sessions' = LoadAndDelete(sessions, id)
    /\ mgCl' = [mgCl EXCEPT ![k] =
                  IF id \in sessions
                  THEN [pc |-> "add", sid |-> id, result |-> "none"]
                  ELSE [pc |-> "done", sid |-> id, result |-> MgrCloseError(id)]]
    /\ UNCHANGED <<count, sess, mgCr, mgAll, mgCancels>>
    /\ UNCHANGED notMg

\* Close: m.count.Add(-1)
MgCloseAdd(k) ==
    /\ mgCl[k].pc = "add"
    /\ count' = count - 1
    /\ mgCl' = [mgCl EXCEPT ![k].pc = "cas"]
    /\ UNCHANGED <<sessions, sess, mgCr, mgAll, mgCancels, mgCalls>>
    /\ UNCHANGED notMg

\* Close: v.(*Session).Close(): if s.closed.CompareAndSwap(false, true) { ...
MgCloseCas(k) ==
    /\ mgCl[k].pc = "cas"
    /\ sess' = [sess EXCEPT ![mgCl[k].sid] = SessionCas(@)]
    /\ mgCl' = [mgCl EXCEPT ![k] =
                  IF SessionCasWon(sess[mgCl[k].sid])
                  THEN [@ EXCEPT !.pc = "cancel"]
                  ELSE [@ EXCEPT !.pc = "done", !.result = "nil"]]
    /\ UNCHANGED <<sessions, count, mgCr, mgAll, mgCancels, mgCalls>>
    /\ UNCHANGED notMg

\* ... s.cancel() }; return nil
MgCloseCancel(k) ==
    /\ mgCl[k].pc = "cancel"
    /\ sess' = [sess EXCEPT ![mgCl[k].sid] = SessionCancel(@)]
    /\ mgCancels' = [mgCancels EXCEPT ![mgCl[k].sid] = @ + 1]
    /\ mgCl' = [mgCl EXCEPT ![k].pc = "done", ![k].result = "nil"]
    /\ UNCHANGED <<sessions, count, mgCr, mgAll, mgCalls>>
    /\ UNCHANGED notMg

\* CloseAll: m.sessions.Range(...) starts; the keys now in the map are the ones
\* Range is bound to visit unless they are deleted meanwhile
MgAllStart(a) ==
    /\ mgAll[a].pc = "idle"
    /\ a > 1 => mgAll[a - 1].pc # "idle"
    /\ mgCalls < MaxCalls
    /\ mgCalls' = mgCalls + 1
    /\ mgAll' = [mgAll EXCEPT ![a] = [MgIdleAll EXCEPT !.pc = "range", !.snap = sessions]]
    /\ UNCHANGED <<sessions, count, sess, mgCr, mgCl, mgCancels>>
    /\ UNCHANGED notMg

\* Range loads an entry it has not visited and calls the function on it
MgAllVisit(a, key) ==
    /\ mgAll[a].pc = "range"
    /\ key \in sessions \ mgAll[a].visited
    /\ mgAll' = [mgAll EXCEPT ![a].pc = "cas", ![a].cur = key, ![a].visited = @ \cup {key}]
    /\ UNCHANGED <<sessions, count, sess, mgCr, mgCl, mgCancels, mgCalls>>
    /\ UNCHANGED notMg

\* the function: s.Close(): if s.closed.CompareAndSwap(false, true) { ...
MgAllCas(a) ==
    /\ mgAll[a].pc = "cas"
    /\ sess' = [sess EXCEPT ![mgAll[a].cur] = SessionCas(@)]
    /\ mgAll' = [mgAll EXCEPT ![a].pc = IF SessionCasWon(sess[mgAll[a].cur]) THEN "cancel" ELSE "delete"]
    /\ UNCHANGED <<sessions, count, mgCr, mgCl, mgCancels, mgCalls>>
    /\ UNCHANGED notMg

\* ... s.cancel() }
MgAllCancel(a) ==
    /\ mgAll[a].pc = "cancel"
    /\ sess' = [sess EXCEPT ![mgAll[a].cur] = SessionCancel(@)]
    /\ mgCancels' = [mgCancels EXCEPT ![mgAll[a].cur] = @ + 1]
    /\ mgAll' = [mgAll EXCEPT ![a].pc = "delete"]
    /\ UNCHANGED <<sessions, count, mgCr, mgCl, mgCalls>>
    /\ UNCHANGED notMg

\* the function: m.sessions.Delete(key)
MgAllDelete(a) ==
    /\ mgAll[a].pc = "delete"
    /\ sessions' = sessions \ {mgAll[a].cur}
    /\ mgAll' = [mgAll EXCEPT ![a].pc = "add"]
    /\ UNCHANGED <<count, sess, mgCr, mgCl, mgCancels, mgCalls>>
    /\ UNCHANGED notMg

\* the function: m.count.Add(-1); return true
MgAllAdd(a) ==
    /\ mgAll[a].pc = "add"
    /\ count' = count - 1
    /\ mgAll' = [mgAll EXCEPT ![a].pc = "range"]
    /\ UNCHANGED <<sessions, sess, mgCr, mgCl, mgCancels, mgCalls>>
    /\ UNCHANGED notMg

\* Range returns: every key that was in the map when it started has been
\* visited or is gone
MgAllEnd(a) ==
    /\ mgAll[a].pc = "range"
    /\ (mgAll[a].snap \cap sessions) \subseteq mgAll[a].visited
    /\ mgAll' = [mgAll EXCEPT ![a].pc = "done"]
    /\ UNCHANGED <<sessions, count, sess, mgCr, mgCl, mgCancels, mgCalls>>
    /\ UNCHANGED notMg

NextManager ==
    \/ \E c \in Sessions : MgCreateStore(c)
    \/ \E c \in Sessions : MgCreateAdd(c)
    \/ \E k \in CloseCalls, id \in 0..MaxCalls : MgCloseLoadAndDelete(k, id)
    \/ \E k \in CloseCalls : MgCloseAdd(k)
    \/ \E k \in CloseCalls : MgCloseCas(k)
    \/ \E k \in CloseCalls : MgCloseCancel(k)
    \/ \E a \in AllCalls : MgAllStart(a)
    \/ \E a \in AllCalls, key \in Sessions : MgAllVisit(a, key)
    \/ \E a \in AllCalls : MgAllCas(a)
    \/ \E a \in AllCalls : MgAllCancel(a)
    \/ \E a \in AllCalls : MgAllDelete(a)
    \/ \E a \in AllCalls : MgAllAdd(a)
    \/ \E a \in AllCalls : MgAllEnd(a)

(***************************************************************************)
(* Specifications                                                           *)
(***************************************************************************)
\* A specification runs one component; the variables of the others are held at
\* an empty value: that component has not been constructed.
FlowAbsent ==
    /\ fImpl = "off" /\ fWindow = 0 /\ fW = <<>> /\ fPc = <<>> /\ fCur = <<>>
    /\ fAmt = <<>> /\ fAcquired = 0 /\ fGranted = 0 /\ fNegGrant = FALSE
    /\ fRelCalls = 0

SrcAbsent ==
    /\ sessions = {} /\ count = 0 /\ instances = {} /\ sess = <<>> /\ spi = <<>>
    /\ sent = <<>> /\ cr = <<>> /\ os = <<>> /\ ak = <<>> /\ cl = <<>> /\ calls = 0

RtAbsent ==
    /\ rtSessions = {} /\ rtWin = <<>> /\ rtSpi = <<>> /\ rtSent = <<>>
    /\ rtCr = <<>> /\ rtOs = <<>> /\ rtAk = <<>> /\ rtCl = <<>> /\ rtCalls = 0

PlAbsent ==
    /\ plKind = "off" /\ plSessions = {} /\ plInstances = {} /\ plSpi = <<>>
    /\ plCr = <<>> /\ plCl = <<>> /\ plSt = <<>> /\ plCalls = 0

CodAbsent ==
    cdBits = 0 /\ cdBatch = <<>> /\ cdData = <<>> /\ cdOut = <<>> /\ cdPc = "off"

\* no codec call of its own, on a build whose int has `bits` bits
CodBuild(bits) ==
    cdBits = bits /\ cdBatch = <<>> /\ cdData = <<>> /\ cdOut = <<>> /\ cdPc = "off"

MgAbsent ==
    mgCr = <<>> /\ mgCl = <<>> /\ mgAll = <<>> /\ mgCancels = <<>> /\ mgCalls = 0

InitFlow ==
    /\ \E impl \in {"session", "window"} : FlowStart(impl)
    /\ SrcAbsent /\ RtAbsent /\ PlAbsent /\ CodAbsent /\ MgAbsent

SpecFlow == InitFlow /\ [][NextFlow]_vars

\* flow.Window alone: callers of Acquire and Release on one Window
InitWindow ==
    FlowStart("window") /\ SrcAbsent /\ RtAbsent /\ PlAbsent /\ CodAbsent /\ MgAbsent

NextWindow ==
    \/ \E p \in Acquirers : AcquireLock(p)
    \/ \E p \in Acquirers : AcquireWait(p)
    \/ \E p \in Acquirers : AcquireWake(p)
    \/ \E p \in Acquirers : AcquireTake(p)
    \/ \E r \in Releasers, n \in GrantValues : ReleaseLock(r, n)
    \/ \E r \in Releasers : ReleaseAdd(r)
    \/ \E r \in Releasers : ReleaseBroadcast(r)

\* a call that is inside Acquire or Release keeps being scheduled, and a call
\* waiting for the mutex gets it if it is free again and again (sync.Mutex hands
\* the lock to a starved waiter); nobody is obliged to start a call
FairSpecWindow ==
    /\ InitWindow /\ [][NextWindow]_vars
    /\ \A p \in Acquirers : SF_vars(AcquireWake(p))
    /\ \A p \in Acquirers : WF_vars(AcquireWait(p) \/ AcquireTake(p))
    /\ \A r \in Releasers : WF_vars(ReleaseAdd(r) \/ ReleaseBroadcast(r))

Init == FlowAbsent /\ SrcStart /\ RtAbsent /\ PlAbsent /\ CodAbsent /\ MgAbsent

Spec == Init /\ [][Next]_vars

\* every handler of source.Server keeps running while it is in the SDK's code;
\* the user's callbacks (Init, ReadBatch, Close) need not return and the host
\* need not make any call
FairSpec ==
    /\ Spec
    /\ \A c \in Sessions : WF_vars(CreateRegister(c))
    /\ \A c \in Sessions : WF_vars(CreateStore(c))
    /\ \A st \in Streams :
          WF_vars(OpenLoadSpi(st) \/ OpenUpdateWindow(st) \/ LoopCheck(st)
                    \/ LoopConsume(st) \/ ReadBegin(st) \/ Send(st))
    /\ \A a \in AckCalls : WF_vars(AckUpdateWindow(a))
    /\ \A c \in CloseCalls : WF_vars(CloseMgrClose(c))

InitRuntime == FlowAbsent /\ SrcAbsent /\ RtStart /\ PlAbsent /\ CodAbsent /\ MgAbsent

SpecRuntime == InitRuntime /\ [][NextRuntime]_vars

\* every running call keeps being scheduled; the host need not make any call
FairSpecRuntime == SpecRuntime /\ WF_vars(RtRun)

InitPlugin ==
    /\ FlowAbsent /\ SrcAbsent /\ RtAbsent /\ MgAbsent
    /\ \E bits \in IntBits : CodBuild(bits)
    /\ \E kind \in {"sink", "processor"} : PlStart(kind)

SpecPlugin == InitPlugin /\ [][NextPlugin]_vars

\* callers of one session.Manager
InitManager ==
    /\ FlowAbsent /\ RtAbsent /\ PlAbsent /\ CodAbsent /\ MgStart

SpecManager == InitManager /\ [][NextManager]_vars

\* PackBatch then UnpackBatch on every batch of at most MaxRecords records
InitCodec ==
    /\ FlowAbsent /\ SrcAbsent /\ RtAbsent /\ PlAbsent /\ MgAbsent
    /\ \E b \in BatchesUpTo(MaxRecords), bits \in IntBits : CodecStart(b, bits)

SpecCodec == InitCodec /\ [][NextCodec]_vars

\* UnpackBatch on buffers that are too short, or that PackBatch wrote right
\* (no string too long for its length field) and that arrive cut or with a
\* wrong field
InitDecode ==
    /\ FlowAbsent /\ SrcAbsent /\ RtAbsent /\ PlAbsent /\ MgAbsent
    /\ \E b \in {x \in BatchesUpTo(MaxDamagedRecords) : LongStrings(x) = {}}, bits \in IntBits :
          CodecStart(b, bits)

SpecDecode == InitDecode /\ [][NextDecode]_vars

\* CloseSession calls on session s that have returned / that are in progress
CloseDone(s) == {c \in CloseCalls : cl[c].sid = s /\ cl[c].pc = "done"}
CloseInFlight(s) == {c \in CloseCalls : cl[c].sid = s /\ cl[c].pc \notin {"idle", "done"}}

\* C2: on a session to which no positive window value has been supplied (every
\* OpenStream so far carried a window <= 0 and no Ack carried a positive one),
\* ReadBatch has not been invoked.
C2_NoReadBeforeCredit ==
    \A s \in Sessions : ~spi[s].posSupplied => spi[s].readCalls = 0

\* C2 witness: a stream opened with window 0 is in its loop, the credit is 0
\* and ReadBatch has not been called.
C2_Witness ==
    \E st \in Streams :
        /\ os[st].pc = "consume"
        /\ sess[os[st].sid].window = 0
        /\ ~spi[os[st].sid].posSupplied
        /\ spi[os[st].sid].readCalls = 0

\* C3: every Ack raises the session's credit by exactly its window value.
C3_AckAdditive ==
    [][\A a \in AckCalls :
         AckUpdateWindow(a) =>
             sess'[ak[a].sid].window = sess[ak[a].sid].window + ak[a].win]_vars

\* C5: when two (or more) CloseSession calls for a created session have returned
\* and none is in progress, each returned success and the callback's Close has
\* been called exactly once.
C5_CloseTwiceTeardownOnce ==
    \A s \in Sessions :
        (Cardinality(CloseDone(s)) >= 2 /\ CloseInFlight(s) = {}) =>
            /\ spi[s].closeCalls = 1
            /\ \A c \in CloseCalls : <<"Close", c>> \notin spi[s].executing
            /\ \A c \in CloseDone(s) : cl[c].result = "ok"

\* C5 witness: two CloseSession calls on one session have returned.
C5_Witness ==
    \E s \in Sessions :
        /\ Cardinality(CloseDone(s)) >= 2
        /\ CloseInFlight(s) = {}
        /\ spi[s].closeCalls = 1

\* C6: an Ack or OpenStream that reaches a session after it was closed has been
\* rejected with the closed-session error and went no further.
C6_ClosedRejected ==
    /\ \A a \in AckCalls :
         ak[a].afterClose => (ak[a].pc = "done" /\ ak[a].result = "closed")
    /\ \A st \in Streams :
         os[st].afterClose => (os[st].pc = "done" /\ os[st].result = "closed")

\* C8: once a CloseSession call for a session has returned, no ReadBatch is
\* invoked and no batch is sent on that session.
C8_NoBatchAfterClose ==
    [][\A s \in Sessions :
         CloseDone(s) # {} =>
             (spi'[s].readCalls = spi[s].readCalls /\ sent'[s] = sent[s])]_vars

\* C9: at most one of Init, ReadBatch and Close is executing on one session's
\* callback instance at any time.
C9_CallbacksSerialized ==
    \A s \in Sessions : Cardinality(spi[s].executing) <= 1

\* C10: a CreateSession whose Init failed returns the error and leaves no session
\* behind: its id is in neither map, Get does not find it, and count only counts
\* sessions whose Init succeeded.
C10_InitFailureRegistersNothing ==
    /\ \A c \in Sessions :
         cr[c].initErr =>
             /\ cr[c].pc = "done" /\ cr[c].result = "err"
             /\ c \notin sessions /\ c \notin instances
             /\ MgrGet(c) = "notfound"
    /\ count <= Cardinality({c \in Sessions : cr[c].pc \in {"store", "done"} /\ ~cr[c].initErr})

\* C10 witness: an Init has failed and its CreateSession has returned.
C10_Witness ==
    \E c \in Sessions : cr[c].initErr /\ cr[c].pc = "done"

\* CloseSession calls on v4 session s that have returned
RtCloseDone(s) == {c \in CloseCalls : rtCl[c].sid = s /\ rtCl[c].pc = "done"}

\* C4: the callback's Close is called at most once per session, however many
\* CloseSession calls arrive and however they overlap.
C4_TeardownAtMostOnce ==
    \A s \in Sessions : rtSpi[s].closeCalls <= 1

\* C7: a read loop that is waiting for credit on a session whose CloseSession has
\* returned eventually terminates.
C7_CloseEndsWaitingLoop ==
    \A st \in Streams :
        (rtOs[st].pc = "parked" /\ RtCloseDone(rtOs[st].sid) # {}) ~> (rtOs[st].pc = "done")

(***************************************************************************)
(* The same properties on the other generation of the server, for the       *)
(* claims whose sources name both.                                           *)
(***************************************************************************)
\* Scenario B on runtime.SourceServer (under SpecRuntime): no ReadBatch on a
\* session to which no positive window value has been released.
RtNoReadBeforeCredit ==
    \A s \in Sessions : ~rtSpi[s].posSupplied => rtSpi[s].readCalls = 0

\* Init failure on runtime.SourceServer (under SpecRuntime): the call returned the
\* error and nothing was added to the Manager.
RtInitFailureRegistersNothing ==
    \A c \in Sessions :
        rtCr[c].initErr => (rtCr[c].pc = "done" /\ rtCr[c].result = "err" /\ c \notin rtSessions)

\* Close at most once on source.Server (under Spec): instances.LoadAndDelete hands
\* the instance to one CloseSession call only.
SrcTeardownAtMostOnce ==
    \A s \in Sessions : spi[s].closeCalls <= 1

(***************************************************************************)
(* Sink and processor streams                                                *)
(***************************************************************************)
\* C11: on a sink Write stream that the host keeps open, whenever the loop is
\* back at Recv every batch received so far has exactly one acknowledgment, and
\* the k-th acknowledgment is the one for the k-th batch.
C11_OneAckPerBatchFifo ==
    plKind = "sink" =>
        \A w \in DataStreams :
            (plSt[w].pc = "recv" /\ ~plSt[w].gone) =>
                /\ Len(plSt[w].acks) = plSt[w].recvd
                /\ \A k \in 1..Len(plSt[w].acks) : plSt[w].acks[k].batch = k

(***************************************************************************)
(* Error reporting                                                           *)
(***************************************************************************)
\* C12: an OpenStream or Ack addressed to a session id the registry does not
\* hold returns a not-found error to its caller.
C12_LookupFailureSurfaced ==
    [][/\ \A st \in Streams, id \in 0..MaxCalls, n \in GrantValues :
            (RtOpenGet(st, id, n) /\ id \notin rtSessions) =>
                rtOs'[st].result = "notfound"
       /\ \A a \in AckCalls, id \in 0..MaxCalls, n \in GrantValues :
            (RtAckGet(a, id, n) /\ id \notin rtSessions) =>
                rtAk'[a].result = "notfound"]_vars

\* C13: a ReadBatch error other than end-of-input leaves the OpenStream loop
\* running.
C13_ReadErrorKeepsStream ==
    [][\A st \in Streams : RtReadEnd(st, "error") => rtOs'[st].pc # "done"]_vars

\* the same on source.Server (under Spec): the loop goes back to its select
SrcReadErrorKeepsStream ==
    [][\A st \in Streams : ReadEnd(st, "error") => os'[st].pc = "check"]_vars

\* C14: when ReadBatch reports end-of-input the OpenStream call returns, and
\* returns no error.
C14_EofEndsStreamCleanly ==
    [][\A st \in Streams :
         RtReadEnd(st, "eof") => (rtOs'[st].pc = "done" /\ rtOs'[st].result = "nil")]_vars

\* the same on source.Server (under Spec): return nil
SrcEofEndsStreamCleanly ==
    [][\A st \in Streams :
         ReadEnd(st, "eof") => (os'[st].pc = "done" /\ os'[st].result = "nil")]_vars

(***************************************************************************)
(* Ordering on a source stream                                               *)
(***************************************************************************)
\* C15: the batches a source stream has sent are in the order in which ReadBatch
\* produced them: each is one of the batches ReadBatch returned to the stream,
\* and a batch sent later was produced later.
C15_SentInProducedOrder ==
    \A st \in Streams :
        /\ \A k \in 1..Len(os[st].out) : os[st].out[k] \in 1..os[st].produced
        /\ \A j, k \in 1..Len(os[st].out) : j < k => os[st].out[j] < os[st].out[k]

\* C15 witness: a stream has sent two batches.
C15_Witness ==
    \E st \in Streams : Len(os[st].out) >= 2

C17_ProcessFailureAbortsOnlyCall ==
    /\ [](plKind = "processor" =>
             \A w \in DataStreams : plSt[w].pc = "done" => plSt[w].gone)
    /\ [][\A w \in DataStreams :
            /\ ProcessEnd(w, "error") =>
                  /\ plSt'[w].pc = "recv"
                  /\ plInstances' = plInstances /\ plSessions' = plSessions
            /\ (plKind = "processor" /\ PlLoadUnpack(w)
                  /\ plSt[w].sid \in plInstances /\ PlUnpack(w).res = "ok") =>
                  plSt'[w].pc = "call"
            /\ (plKind = "processor" /\ PlSend(w) /\ ~plSt[w].gone) =>
                  plSt'[w].acks = Append(plSt[w].acks,
                                         [batch |-> plSt[w].recvd, success |-> TRUE])]_vars

\* C17 witness: the callback failed on a stream's first batch, was invoked again
\* for the second batch of the same session, and that result was sent.
C17_Witness ==
    /\ plKind = "processor"
    /\ \E w \in DataStreams :
          /\ plSt[w].recvd = 2
          /\ plSt[w].acks = <<[batch |-> 2, success |-> TRUE]>>
          /\ plSpi[plSt[w].sid].dataCalls = 2
          /\ plSt[w].sid \in plInstances /\ plSt[w].sid \in plSessions

(***************************************************************************)
(* Session isolation                                                         *)
(***************************************************************************)
\* what belongs to session t: its Session object (window, data, closed flag,
\* lifecycle token), its registry entries, and its callback instance
SessionView(t) == <<sess[t], t \in sessions, t \in instances, spi[t]>>

\* the steps that act on session s
StepOn(s) ==
    \/ \E a \in AckCalls : ak[a].sid = s /\ AckUpdateWindow(a)
    \/ \E st \in Streams :
          os[st].sid = s /\ (OpenLoadSpi(st) \/ OpenUpdateWindow(st) \/ LoopCheck(st)
                                \/ LoopConsume(st) \/ ReadBegin(st) \/ Send(st)
                                \/ \E out \in ReadOutcomes : ReadEnd(st, out))
    \/ \E key \in DataKeys, value \in DataValues : SetData(s, key, value)
    \/ \E c \in CloseCalls : CloseLoadAndDelete(c, s)
    \/ \E c \in CloseCalls : cl[c].sid = s /\ (CloseSpiReturn(c) \/ CloseMgrClose(c))

\* C18: a step of an Ack, an OpenStream, a SetData or a CloseSession on one
\* session leaves every other session's window, data, closed flag, registry
\* entries and callback instance as they were (stated contrapositively: a step
\* that changes what session t holds is a step on no other session).
C18_SessionsIsolated ==
    [][\A t \in Sessions :
         SessionView(t)' # SessionView(t) => \A s \in Sessions \ {t} : ~StepOn(s)]_vars

\* C18 witness: two sessions exist; one has had its window set by an Ack, data
\* stored or been closed, and the other is as NewSession made it.
C18_Witness ==
    \E s, t \in Sessions :
        /\ s # t
        /\ cr[s].result = "ok" /\ cr[t].result = "ok"
        /\ sess[s] # NewSession
        /\ sess[t] = NewSession /\ t \in sessions /\ t \in instances

(***************************************************************************)
(* Progress of a blocked acquirer                                            *)
(***************************************************************************)
\* C19: an acquirer parked in Window.Acquire while the credit is positive
\* eventually takes a credit, unless the credit is gone again first (taken by
\* another acquirer); taking lowers the credit by exactly one.
C19_BlockedAcquirerProceeds ==
    /\ \A p \in Acquirers :
          (fPc[p] = "parked" /\ fW.value > 0) ~> (fPc[p] = "idle" \/ fW.value <= 0)
    /\ [][\A p \in Acquirers :
            AcquireTake(p) => (fW.value > 0 /\ fW'.value = fW.value - 1)]_vars

\* Session.ConsumeWindow refuses instead of blocking (under SpecFlow): a call
\* that finds the credit positive does not refuse, and its compare-and-swap
\* lowers the credit by exactly one or leaves it alone.
ConsumeWindowTakesOne ==
    [][\A p \in Acquirers :
         /\ (ConsumeLoad(p) /\ fWindow > 0) => fPc'[p] = "cas"
         /\ ConsumeCas(p) =>
               \/ fPc'[p] = "idle" /\ fWindow' = fWindow - 1 /\ fWindow > 0
               \/ fPc'[p] = "retry" /\ fWindow' = fWindow]_vars

\* C19 witness: an acquirer is parked, a Release has made the credit positive
\* and its Broadcast has taken the acquirer off the wait list.
C19_Witness ==
    /\ fImpl = "window"
    /\ \E p \in Acquirers :
          fPc[p] = "parked" /\ fW.value > 0 /\ p \notin fW.waiters

(***************************************************************************)
(* Forced close                                                              *)
(***************************************************************************)
\* C20: a CloseSession that has found the session's instance ends with the
\* session removed from the registry and closed, whether or not the callback's
\* Close returns.
C20_CloseAlwaysReleases ==
    \A c \in CloseCalls :
        (cl[c].pc = "closing")
            ~> (/\ cl[c].sid \in Sessions \ sessions
                /\ sess[cl[c].sid].closed
                /\ sess[cl[c].sid].cancelled)

(***************************************************************************)
(* Ack and CloseSession beside a parked read loop (v4)                       *)
(***************************************************************************)
\* the owner p of a Window's mu is at a step of its own that unlocks it
RtOwnerRuns(p) ==
    \/ p[1] = "os" /\ rtOs[p[2]].pc \in {"rel_add", "locked"}
    \/ p[1] = "ak" /\ rtAk[p[2]].pc = "rel_add"

\* C21: while an OpenStream loop is parked in Window.Acquire it does not own the
\* Window's mu, and every Ack and CloseSession in progress on its session can
\* take its next step, or waits only for mu owned by a call that is about to
\* unlock it (never for the parked loop).
C21_ParkedLoopBlocksNobody ==
    \A st \in Streams :
        rtOs[st].pc = "parked" =>
            /\ <<"os", st>> \notin rtWin[rtOs[st].sid].mu
            /\ \A a \in AckCalls :
                  rtAk[a].sid = rtOs[st].sid =>
                      /\ rtAk[a].pc = "rel_lock" =>
                            \/ ENABLED RtAckReleaseLock(a)
                            \/ \E p \in rtWin[rtOs[st].sid].mu : RtOwnerRuns(p)
                      /\ rtAk[a].pc = "rel_add" => ENABLED RtAckReleaseAdd(a)
                      /\ rtAk[a].pc = "rel_bcast" => ENABLED RtAckReleaseBroadcast(a)
            /\ \A c \in CloseCalls :
                  rtCl[c].sid = rtOs[st].sid =>
                      /\ rtCl[c].pc = "closing" => ENABLED RtCloseSpiReturn(c)
                      /\ rtCl[c].pc = "remove" => ENABLED RtCloseRemove(c)

\* C21 witness: a loop is parked on the wait list while an Ack on the same
\* session owns the Window's mu and is adding its credit.
C21_Witness ==
    \E st \in Streams, a \in AckCalls :
        /\ rtOs[st].pc = "parked"
        /\ <<"os", st>> \in rtWin[rtOs[st].sid].waiters
        /\ rtAk[a].sid = rtOs[st].sid
        /\ rtAk[a].pc = "rel_add"

\* C21, for CloseSession: a CloseSession runs to its end beside a parked loop
C21_CloseBesideParked ==
    \E st \in Streams, c \in CloseCalls :
        /\ rtOs[st].pc = "parked"
        /\ rtCl[c].sid = rtOs[st].sid
        /\ rtCl[c].pc = "done" /\ rtCl[c].result = "ok" /\ rtCl[c].sid \notin rtSessions

(***************************************************************************)
(* Round trip of the packed format                                          *)
(***************************************************************************)
\* C22: UnpackBatch(PackBatch(b)) succeeds and gives back the records in
\* order, each with its payload bytes and its metadata pairs, and the context
\* map, whatever order the map ranges of PackBatch took.
C22_RoundTrip ==
    cdPc = "unpacked" =>
        /\ cdOut.res = "ok"
        /\ Len(cdOut.b.Records) = Len(cdBatch.Records)
        /\ \A i \in 1..Len(cdBatch.Records) :
              /\ cdOut.b.Records[i].Payload = cdBatch.Records[i].Payload
              /\ cdOut.b.Records[i].Metadata = cdBatch.Records[i].Metadata
        /\ cdOut.b.Context = cdBatch.Context

\* the round trip of a batch whose keys and values are all shorter than 65536
\* bytes gives the batch back
RoundTripShortStrings ==
    (cdPc = "unpacked" /\ LongStrings(cdBatch) = {}) =>
        (cdOut.res = "ok" /\ cdOut.b = cdBatch)

\* a batch of two records with two metadata pairs each has made the round trip
RoundTripShortReached ==
    /\ cdPc = "unpacked" /\ LongStrings(cdBatch) = {}
    /\ Len(cdBatch.Records) = 2
    /\ \A i \in 1..2 : Cardinality(DOMAIN cdBatch.Records[i].Metadata) = 2

(***************************************************************************)
(* Rejection of damaged buffers                                             *)
(***************************************************************************)
\* C23: UnpackBatch returns an error, without a read or slice outside the
\* buffer, for every buffer shorter than 16 bytes, with a wrong magic, with an
\* unsupported version, or with a count or length field that announces more
\* than the buffer holds.
C23_DamagedRejected == cdPc = "unpacked_damaged" => cdOut.res = "error"

\* the same on builds whose int has 64 bits
DamagedRejected64 == (cdPc = "unpacked_damaged" /\ cdBits = 64) => cdOut.res = "error"

\* UnpackBatch has rejected, on a 64-bit build, a buffer whose first record
\* announces a payload of 2^32 - 1 bytes
DamagedRejected64Reached ==
    /\ cdPc = "unpacked_damaged" /\ cdBits = 64 /\ cdOut.res = "error"
    /\ 20 \in Uint32Offsets(cdBatch)
    /\ BLen(cdData) >= 24 /\ BSlice(cdData, 20, 24) = Run(255, 4)

(***************************************************************************)
(* Credit and empty reads                                                   *)
(***************************************************************************)
\* C24: when ReadBatch returns a batch with no records, the loop is next at its
\* ReadBatch call, still holding the credit it took: it does not go back in
\* front of ConsumeWindow.
C24_EmptyReadKeepsCredit ==
    [][\A st \in Streams : ReadEnd(st, "empty") => os'[st].pc = "read"]_vars

\* every arrival of the OpenStream loop at its ReadBatch call, the one after
\* an empty read included, takes one credit from the session's window
EveryReadTakesCredit ==
    [][\A st \in Streams :
         (os[st].pc # "read" /\ os'[st].pc = "read") =>
             /\ os[st].pc = "consume"
             /\ sess[os[st].sid].window > 0
             /\ sess'[os[st].sid].window = sess[os[st].sid].window - 1]_vars

(***************************************************************************)
(* Sign of the credit counter                                               *)
(***************************************************************************)
\* C25: the credit counter of every session is non-negative in every reachable
\* state, whatever window values the host sends in OpenStream and Ack.
C25_CreditNonNegative == \A s \in Sessions : sess[s].window >= 0

\* the same for the flow.Window of a v4 session (under SpecRuntime)
RtCreditNonNegative == \A s \in Sessions : rtWin[s].value >= 0

(***************************************************************************)
(* Manager.Close, case by case                                              *)
(***************************************************************************)
\* C26: Manager.Close(id) returns the not-found error for an id that was never
\* created; on a live session it returns no error, cancels the lifecycle token
\* and removes the session; on an id that was closed before it returns no
\* error and changes nothing.
C26_CloseThreeCases ==
    [][\A c \in CloseCalls :
         CloseMgrClose(c) =>
            LET id == cl[c].sid IN
            /\ id \notin Sessions => (MgrCloseError(id) = "notfound" /\ sessions' = sessions)
            /\ (id \in Sessions /\ id \in sessions) =>
                  /\ MgrCloseError(id) = "nil"
                  /\ id \notin sessions'
                  /\ sess'[id].closed /\ sess'[id].cancelled
            /\ (id \in Sessions /\ id \notin sessions) =>
                  (MgrCloseError(id) = "nil" /\ sessions' = sessions /\ sess' = sess)]_vars

\* the first two cases alone: never created, and live
CloseUnknownAndLive ==
    [][\A c \in CloseCalls :
         CloseMgrClose(c) =>
            LET id == cl[c].sid IN
            /\ id \notin Sessions => (MgrCloseError(id) = "notfound" /\ sessions' = sessions)
            /\ (id \in Sessions /\ id \in sessions) =>
                  /\ MgrCloseError(id) = "nil"
                  /\ id \notin sessions'
                  /\ sess'[id].closed /\ sess'[id].cancelled]_vars

(***************************************************************************)
(* Manager.Count                                                            *)
(***************************************************************************)
\* no Create, Close or CloseAll call is in progress
MgQuiet ==
    /\ \A c \in Sessions : mgCr[c] \in {"idle", "done"}
    /\ \A k \in CloseCalls : mgCl[k].pc \in {"idle", "done"}
    /\ \A a \in AllCalls : mgAll[a].pc \in {"idle", "done"}

\* C27: once every Create, Close and CloseAll call has returned, Manager.Count
\* is the number of sessions registered in the manager, and is not negative.
C27_CountIsRegistered == MgQuiet => (count = Cardinality(sessions) /\ count >= 0)

\* a Session.Close on s has won the CompareAndSwap and has not run cancel() yet
SessionCloseRunning(s) ==
    \/ \E k \in CloseCalls : mgCl[k].pc = "cancel" /\ mgCl[k].sid = s
    \/ \E a \in AllCalls : mgAll[a].pc = "cancel" /\ mgAll[a].cur = s

\* a Session.Close on s has come back from its CompareAndSwap, which either
\* set the flag or found it set
SessionCasPassed(s) ==
    \/ \E k \in CloseCalls :
          /\ mgCl[k].sid = s
          /\ mgCl[k].pc = "cancel" \/ (mgCl[k].pc = "done" /\ mgCl[k].result = "nil")
    \/ \E a \in AllCalls : mgAll[a].cur = s /\ mgAll[a].pc \in {"cancel", "delete", "add"}

\* C28, as stated: the closed flag of a session stays set once a Close has set
\* it or found it set, the session's context is cancelled exactly when the
\* flag is set, and cancel() has run at most once, whatever Close calls overlap.
C28_CancelledIffClosed ==
    \A s \in Sessions :
        /\ SessionCasPassed(s) => sess[s].closed
        /\ sess[s].cancelled <=> sess[s].closed
        /\ mgCancels[s] <= 1

\* C28, amended: IsClosed never goes back to false and a cancelled context
\* stays cancelled; a cancelled context belongs to a closed session; a closed
\* session's context is cancelled as soon as the Close that won the
\* CompareAndSwap has run its cancel(); cancel() runs once per closed session
\* and never twice.
C28_ClosedFlagAndToken ==
    /\ [][\A s \in Sessions : (sess[s].closed => sess'[s].closed)
                               /\ (sess[s].cancelled => sess'[s].cancelled)]_vars
    /\ [](\A s \in Sessions :
            /\ sess[s].cancelled => sess[s].closed
            /\ (sess[s].closed /\ ~SessionCloseRunning(s)) => sess[s].cancelled
            /\ mgCancels[s] = IF sess[s].cancelled THEN 1 ELSE 0)

\* C28 witness: Close and CloseAll have both called Session.Close on one
\* session, one of them lost the CompareAndSwap, and cancel() has run.
C28_Witness ==
    \E s \in Sessions, k \in CloseCalls, a \in AllCalls :
        /\ mgCl[k].sid = s /\ mgCl[k].pc = "done" /\ mgCl[k].result = "nil"
        /\ mgAll[a].pc = "done" /\ s \in mgAll[a].visited
        /\ sess[s].closed /\ sess[s].cancelled /\ mgCancels[s] = 1

(***************************************************************************)
(* Waiting for credit                                                       *)
(***************************************************************************)
\* the steps of the v1 OpenStream loop between two ReadBatch calls
LoopStep(st) == LoopCheck(st) \/ LoopConsume(st)

\* C29: a read loop that has found no credit is parked: when ConsumeWindow /
\* Acquire has found the credit at 0 and neither the session nor the transport
\* is cancelled, the loop has no enabled step of its own until a grant or a
\* cancellation changes that.
C29_WaitIsParked ==
    [][\A st \in Streams :
         (LoopConsume(st) /\ ConsumeRefuses(sess[os[st].sid].window) /\ ~LoopCancelled(st))
             => os'[st].pc \notin {"check", "consume"}]_vars

\* C29, v4: a loop on the wait list of its Window has no enabled step
RtWaitIsParked ==
    \A st \in Streams :
        (rtOs[st].pc = "parked" /\ <<"os", st>> \in rtWin[rtOs[st].sid].waiters)
            => ~ENABLED (\/ RtAcquireLock(st) \/ RtAcquireWait(st) \/ RtAcquireWake(st)
                         \/ RtAcquireTake(st) \/ RtReadBegin(st))

\* C29, v1: the loop that found no credit is back at its select and steps on
C29_BusyRetryReached ==
    \E st \in Streams :
        /\ os[st].pc = "check" /\ sess[os[st].sid].window = 0 /\ ~LoopCancelled(st)
        /\ ENABLED LoopStep(st)

(***************************************************************************)
(* Malformed frames on a Write / Process stream                             *)
(***************************************************************************)
\* stream w's loop unpacks a frame that is not a packed batch, for a session
\* that has its instance
PlUnpacksMalformed(w) ==
    PlLoadUnpack(w) /\ plSt[w].sid \in plInstances /\ plSt[w].frame # PlGoodFrame

\* the loop of stream w skips the item: it is back at Recv, the call has not
\* ended, no callback was entered and nothing was sent
PlItemSkipped(w) ==
    /\ plSt'[w].pc = "recv" /\ plSt'[w].result = "none"
    /\ plSt'[w].acks = plSt[w].acks
    /\ plSpi' = plSpi /\ plInstances' = plInstances /\ plSessions' = plSessions

\* C30: a malformed frame on a sink Write or processor Process stream aborts
\* only that item: the loop goes back to Recv without ending the stream and
\* without invoking the callback, and a well-formed frame received on the
\* stream (for a session that has its instance) is handed to the callback.
C30_MalformedAbortsOnlyItem ==
    [][\A w \in DataStreams :
         /\ PlUnpacksMalformed(w) => PlItemSkipped(w)
         /\ (PlLoadUnpack(w) /\ plSt[w].sid \in plInstances /\ plSt[w].frame = PlGoodFrame)
               => plSt'[w].pc = "call"]_vars

\* C30 on a build with a 64-bit int
MalformedSkipped64 ==
    [][\A w \in DataStreams :
         (cdBits = 64 /\ PlUnpacksMalformed(w)) => PlItemSkipped(w)]_vars

\* C30, 64-bit int: a stream skipped a malformed first frame and the callback
\* ran on its second frame
MalformedSkipped64Reached ==
    /\ cdBits = 64
    /\ \E w \in DataStreams :
          /\ plSt[w].recvd = 2 /\ plSt[w].pc = "calling"
          /\ plSpi[plSt[w].sid].dataCalls = 1

\* C30, 32-bit int: UnpackBatch has panicked in a stream's handler
PlPanicReached == \E w \in DataStreams : plSt[w].pc = "panicked"

(***************************************************************************)
(* Length prefixes of strings                                               *)
(***************************************************************************)
\* the keys and values of the context and of every record's metadata
BatchStrings(b) ==
    UNION ({DOMAIN b.Context \cup {b.Context[k] : k \in DOMAIN b.Context}}
           \cup {DOMAIN b.Records[i].Metadata
                    \cup {b.Records[i].Metadata[k] : k \in DOMAIN b.Records[i].Metadata} :
                 i \in 1..Len(b.Records)})

\* appendString(nil, s) starts with len(s) as its 2-byte prefix, and readString
\* reads s back from it
PrefixExact(s) ==
    /\ Uint16(appendString(<<>>, s), 0) = BLen(s)
    /\ readString(appendString(<<>>, s), 0) = [ok |-> TRUE, s |-> s, off |-> 2 + BLen(s)]

\* the first context entry of the packed buffer (at offset 16) reads back as a
\* key of the context and the value stored under it
FirstEntryReadsBack ==
    LET k == readString(cdData, 16)
        v == readString(cdData, k.off)
    IN  /\ k.ok /\ k.s \in DOMAIN cdBatch.Context
        /\ v.ok /\ v.s = cdBatch.Context[k.s]

\* C31: PackBatch writes every metadata or context key and value with a 2-byte
\* prefix equal to the string's byte length, also for strings of 65536 bytes
\* or more, so that the string is read back exactly.
C31_LengthPrefixExact ==
    cdPc = "packed" =>
        /\ \A s \in BatchStrings(cdBatch) : PrefixExact(s)
        /\ DOMAIN cdBatch.Context # {} => FirstEntryReadsBack

\* C31 for batches whose strings are all shorter than 65536 bytes
LengthPrefixShort ==
    (cdPc = "packed" /\ LongStrings(cdBatch) = {}) =>
        /\ \A s \in BatchStrings(cdBatch) : PrefixExact(s)
        /\ DOMAIN cdBatch.Context # {} => FirstEntryReadsBack

\* a batch with a context of two short entries has been packed
LengthPrefixShortReached ==
    /\ cdPc = "packed" /\ LongStrings(cdBatch) = {}
    /\ Cardinality(DOMAIN cdBatch.Context) = 2

(***************************************************************************)
(* The registry and the instances map                                       *)
(***************************************************************************)
\* no CreateSession and no CloseSession call is in progress
SrcQuiet ==
    /\ \A c \in Sessions : cr[c].pc \in {"idle", "done"}
    /\ \A c \in CloseCalls : cl[c].pc \in {"idle", "done"}

\* no CloseSession for session id has begun
NoCloseBegun(id) == \A c \in CloseCalls : cl[c].pc = "idle" \/ cl[c].sid # id

\* C32: whenever no CreateSession and no CloseSession is in progress, the ids
\* the registry holds are the ids that have a callback instance; and an
\* OpenStream for a session whose CreateSession has returned (and that no
\* CloseSession has been asked to close) finds the session and then its
\* instance.
C32_RegistryMatchesInstances ==
    /\ [](SrcQuiet => sessions = instances)
    /\ [][\A st \in Streams :
            \* an OpenStream that returns from Get or from instances.Load with
            \* an error was for id 0 or for a session being closed
            /\ (os[st].pc = "idle" /\ os'[st].pc = "done" /\ os'[st].sid \in Sessions)
                  => ~NoCloseBegun(os'[st].sid)
            /\ (os[st].pc = "load" /\ os'[st].pc = "done") => ~NoCloseBegun(os[st].sid)]_vars

\* C32 witness: with no CreateSession or CloseSession in progress, an
\* OpenStream has found the session and the instance of a created session.
C32_Witness ==
    /\ SrcQuiet
    /\ \E st \in Streams :
          /\ os[st].pc = "update" /\ NoCloseBegun(os[st].sid)
          /\ os[st].sid \in sessions \cap instances

\* C32: between the two stores of a CreateSession the registry holds an id
\* that has no instance yet
CreateBetweenStoresReached ==
    \E c \in Sessions : cr[c].pc = "store" /\ c \in sessions \ instances

\* C32: an OpenStream overlapping a CloseSession found the session and not
\* its instance
OpenBesideCloseReached ==
    \E st \in Streams : os[st].pc = "done" /\ os[st].result = "nospi"

====
